---- MODULE Spec2Model ----
(***************************************************************************)
(* A model of the nirvana-threat-detector client toolkit:                  *)
(*   - pcap_converter.convert_pcap_to_csv  (feature extractor, connection  *)
(*     aggregator, port category, feature selector of the capture path),   *)
(*   - reorganize_csv.rearrange_threat_data (flow normalizer and feature   *)
(*     selector of the flow-log path),                                     *)
(*   - ThreatDetectorClient.analyze / _display_results (report renderer).  *)
(*                                                                         *)
(* Cell values of a pandas table are modelled as tagged 4-tuples           *)
(* <<kind, n, d, s>>: a number n/d (kind "num"), a string s (kind "str"),  *)
(* a boolean (kind "bool", n = 1 for True), a missing value (kind "nan")   *)
(* or an IEEE infinity (kind "inf").  Times are counted in milliseconds,   *)
(* so that the epsilon 0.001 s of the rate formulas is the integer 1.      *)
(***************************************************************************)
EXTENDS Integers, Sequences, FiniteSets, TLC

\* ------------------------------------------------------------------ bounds
MaxPackets == 3
MaxPort == 65535
MaxFlowRows == 2
MaxPrefix == 4
MaxPreds == 15
MaxMenuRounds == 3

\* ------------------------------------------------------------------ values
RECURSIVE GCD(_, _)
GCD(a, b) == IF b = 0 THEN a ELSE GCD(b, a % b)

Abs(n) == IF n < 0 THEN -n ELSE n

Rat(n, d) ==
    LET g == GCD(Abs(n), Abs(d))
        s == IF d < 0 THEN -1 ELSE 1
    IN  <<"num", (s * n) \div g, (s * d) \div g, "">>

Num(n) == <<"num", n, 1, "">>
Str(s) == <<"str", 0, 1, s>>
Bool(b) == <<"bool", IF b THEN 1 ELSE 0, 1, "">>
NaN == <<"nan", 0, 1, "">>
Inf == <<"inf", 1, 1, "">>
NegInf == <<"inf", -1, 1, "">>

IsNum(v) == v[1] = "num"
IsNaN(v) == v[1] = "nan"

\* IEEE / numpy arithmetic on cells: NaN propagates, x / 0 is inf (0 / 0 NaN).
NumAdd(a, b) ==
    IF IsNum(a) /\ IsNum(b) THEN Rat(a[2] * b[3] + b[2] * a[3], a[3] * b[3])
    ELSE IF a[1] = "inf" /\ b[1] = "inf" THEN (IF a = b THEN a ELSE NaN)
    ELSE IF a[1] = "inf" /\ IsNum(b) THEN a
    ELSE IF IsNum(a) /\ b[1] = "inf" THEN b
    ELSE NaN

NumSub(a, b) ==
    IF IsNum(a) /\ IsNum(b) THEN Rat(a[2] * b[3] - b[2] * a[3], a[3] * b[3])
    ELSE NaN

NumMul(a, b) ==
    IF IsNum(a) /\ IsNum(b) THEN Rat(a[2] * b[2], a[3] * b[3]) ELSE NaN

NumDiv(a, b) ==
    IF IsNum(a) /\ IsNum(b)
    THEN IF b[2] = 0
         THEN (IF a[2] = 0 THEN NaN ELSE IF a[2] > 0 THEN Inf ELSE NegInf)
         ELSE Rat(a[2] * b[3], a[3] * b[2])
    ELSE NaN

\* Comparisons as Python/numpy make them: every comparison with NaN is False.
NumEq(a, b) == IsNum(a) /\ IsNum(b) /\ a[2] * b[3] = b[2] * a[3]
NumLt(a, b) ==
    \/ IsNum(a) /\ IsNum(b) /\ a[2] * b[3] < b[2] * a[3]
    \/ IsNum(a) /\ b = Inf
    \/ a = NegInf /\ (IsNum(b) \/ b = Inf)
NumLe(a, b) == NumLt(a, b) \/ NumEq(a, b) \/ (a[1] = "inf" /\ a = b)

\* ------------------------------------------------------------------ tables
\* A DataFrame: the column labels, in order, and the rows as tuples of cells
\* aligned with the labels (labels may repeat, as pandas allows).
EmptyFrame == [names |-> <<>>, rows |-> <<>>]

\* The same sequence, as an evaluated tuple: TLC keeps a function constructor
\* [i \in S |-> e] unevaluated and evaluates e again at every application.
Eager(s) == s \o <<>>

NRows(t) == Len(t.rows)
NCols(t) == Len(t.names)
ColSet(t) == {t.names[k] : k \in 1..Len(t.names)}
HasCol(t, c) == c \in ColSet(t)
ColIdxs(t, c) == {k \in 1..Len(t.names) : t.names[k] = c}
ColIdx(t, c) == CHOOSE k \in ColIdxs(t, c) : \A j \in ColIdxs(t, c) : k <= j
Cell(t, i, c) == t.rows[i][ColIdx(t, c)]

\* df[c] = f(row): overwrite every column labelled c, or append a new one.
SetCol(t, c, F(_)) ==
    IF HasCol(t, c)
    THEN [t EXCEPT !.rows =
            Eager([i \in 1..Len(t.rows) |->
                Eager([k \in 1..Len(t.names) |->
                    IF t.names[k] = c THEN F(i) ELSE t.rows[i][k]])])]
    ELSE [names |-> Append(t.names, c),
          rows  |-> Eager([i \in 1..Len(t.rows) |-> Append(t.rows[i], F(i))])]

RECURSIVE Flatten(_)
Flatten(ss) == IF ss = <<>> THEN <<>> ELSE Head(ss) \o Flatten(Tail(ss))

SeqsUpTo(S, n) == UNION {[1..k -> S] : k \in 0..n}

\* The indices of a set of positions, ascending.
RECURSIVE Ascending(_)
Ascending(S) ==
    IF S = {} THEN <<>>
    ELSE LET m == CHOOSE x \in S : \A y \in S : x <= y
         IN  <<m>> \o Ascending(S \ {m})

\* df[cols]: for each requested label, in the order requested, every column
\* carrying it (pandas returns all columns of a repeated label).
FrameSelect(t, cols) ==
    LET idx == Flatten([k \in 1..Len(cols) |-> Ascending(ColIdxs(t, cols[k]))])
    IN  [names |-> Eager([k \in 1..Len(idx) |-> t.names[idx[k]]]),
         rows  |-> Eager([i \in 1..Len(t.rows) |->
                       Eager([k \in 1..Len(idx) |-> t.rows[i][idx[k]]])])]

\* df.fillna(v)
FrameFillna(t, v) ==
    [t EXCEPT !.rows =
        Eager([i \in 1..Len(t.rows) |->
            Eager([k \in 1..Len(t.names) |->
                IF IsNaN(t.rows[i][k]) THEN v ELSE t.rows[i][k]])])]

\* ------------------------------------------------- decoded packets (scapy)
\* what scapy decodes of a frame: the layers above IP, the IP protocol number,
\* the TCP fields, the frame's length and the length of its IP layer
TcpSyn ==
    [layers |-> {"TCP"}, proto |-> 6, flags |-> 2, window |-> 8192,
     seq |-> 1000, ack |-> 0, len |-> 60, iplen |-> 46, ttl |-> 64]
UdpDgram ==
    [layers |-> {"UDP"}, proto |-> 17, flags |-> 0, window |-> 0,
     seq |-> 0, ack |-> 0, len |-> 100, iplen |-> 86, ttl |-> 64]
IcmpEcho ==
    [layers |-> {"ICMP"}, proto |-> 1, flags |-> 0, window |-> 0,
     seq |-> 0, ack |-> 0, len |-> 98, iplen |-> 84, ttl |-> 128]
GrePkt ==
    [layers |-> {}, proto |-> 47, flags |-> 0, window |-> 0,
     seq |-> 0, ack |-> 0, len |-> 80, iplen |-> 66, ttl |-> 64]
Tunnel ==
    [layers |-> {"TCP", "UDP"}, proto |-> 17, flags |-> 17, window |-> 512,
     seq |-> 7, ack |-> 1001, len |-> 1500, iplen |-> 1486, ttl |-> 1]
Request == [src |-> "10.0.0.1", sport |-> 5000, dst |-> "10.0.0.2", dport |-> 80]
Reply   == [src |-> "10.0.0.2", sport |-> 80, dst |-> "10.0.0.1", dport |-> 5000]

\* a decoded IP packet: its time (packet.time, in milliseconds), its endpoints
\* and what scapy decoded of it
IpPacket(t, e, l) ==
    [ip |-> TRUE, time |-> t, src |-> e.src, dst |-> e.dst,
     sport |-> e.sport, dport |-> e.dport, layers |-> l.layers,
     proto |-> l.proto, flags |-> l.flags, window |-> l.window,
     seq |-> l.seq, ack |-> l.ack, len |-> l.len, iplen |-> l.iplen,
     ttl |-> l.ttl]

\* the packets a capture is made of: both directions of a TCP and of an ICMP
\* exchange at two times each, and one packet of each other kind
IpPackets ==
    {IpPacket(t, e, l) : t \in {0, 2000}, e \in {Request, Reply},
                         l \in {TcpSyn, IcmpEcho}}
    \cup {IpPacket(0, Request, UdpDgram), IpPacket(2000, Request, GrePkt),
          IpPacket(0, Reply, Tunnel)}

\* a frame without an IP layer (ARP)
ArpFrame ==
    [ip |-> FALSE, time |-> 0, src |-> "", dst |-> "", sport |-> 0, dport |-> 0,
     layers |-> {}, proto |-> 0, flags |-> 0, window |-> 0, seq |-> 0,
     ack |-> 0, len |-> 42, iplen |-> 0, ttl |-> 0]

Packets == IpPackets \cup {ArpFrame}

\* ------------------------------------------------------ feature extractor
\* flags & mask, for a one-bit mask
FlagBit(flags, mask) == IF (flags \div mask) % 2 = 1 THEN Num(1) ELSE Num(0)

NoTransport ==
    [src_port |-> Num(0), dst_port |-> Num(0), tcp_flags |-> Num(0),
     has_syn |-> Num(0), has_ack |-> Num(0), has_fin |-> Num(0),
     has_rst |-> Num(0), has_psh |-> Num(0), window_size |-> Num(0),
     seq_num |-> Num(0), ack_num |-> Num(0)]

\* the record.update(...) of the branch taken
TransportFields(p) ==
    IF "TCP" \in p.layers
    THEN [src_port |-> Num(p.sport), dst_port |-> Num(p.dport),
          protocol |-> Str("TCP"), tcp_flags |-> Num(p.flags),
          has_syn |-> FlagBit(p.flags, 2), has_ack |-> FlagBit(p.flags, 16),
          has_fin |-> FlagBit(p.flags, 1), has_rst |-> FlagBit(p.flags, 4),
          has_psh |-> FlagBit(p.flags, 8), window_size |-> Num(p.window),
          seq_num |-> Num(p.seq), ack_num |-> Num(p.ack)]
    ELSE IF "UDP" \in p.layers
    THEN [src_port |-> Num(p.sport), dst_port |-> Num(p.dport),
          protocol |-> Str("UDP")] @@ NoTransport
    ELSE IF "ICMP" \in p.layers
    THEN [protocol |-> Str("ICMP")] @@ NoTransport
    ELSE NoTransport

ExtractRecord(p) ==
    [payload_size |-> Num(p.len - p.iplen)]
    @@ TransportFields(p)
    @@ [timestamp |-> Rat(p.time, 1000), src_ip |-> Str(p.src),
        dst_ip |-> Str(p.dst), protocol |-> Num(p.proto),
        packet_size |-> Num(p.len), ttl |-> Num(p.ttl)]

\* the for loop without `if IP in packet`: one record per packet
ExtractEveryPacket(pkts) ==
    [k \in 1..Len(pkts) |-> ExtractRecord(pkts[k])] \o <<>>

\* the for loop over the packets: one record per packet with an IP layer
RECURSIVE ExtractFeatures(_)
ExtractFeatures(pkts) ==
    IF pkts = <<>> THEN <<>>
    ELSE IF Head(pkts).ip
         THEN <<ExtractRecord(Head(pkts))>> \o ExtractFeatures(Tail(pkts))
         ELSE ExtractFeatures(Tail(pkts))

\* the keys of a record dict, in insertion order
RecordKeys ==
    <<"timestamp", "src_ip", "dst_ip", "protocol", "packet_size", "ttl",
      "src_port", "dst_port", "tcp_flags", "has_syn", "has_ack", "has_fin",
      "has_rst", "has_psh", "window_size", "seq_num", "ack_num",
      "payload_size">>

\* pd.DataFrame(data): no rows, no columns
DataFrameOf(data) ==
    IF data = <<>> THEN EmptyFrame
    ELSE [names |-> RecordKeys,
          rows  |-> Eager([i \in 1..Len(data) |->
                        Eager([k \in 1..Len(RecordKeys) |->
                                  data[i][RecordKeys[k]]])])]

\* --------------------------------------------------- connection aggregator
\* the same key for both directions: the endpoint of the lower port first
ConnectionIdUndirected(t, i) ==
    IF Cell(t, i, "src_port")[2] <= Cell(t, i, "dst_port")[2]
    THEN Str(Cell(t, i, "src_ip")[4] \o ":" \o ToString(Cell(t, i, "src_port")[2])
             \o "-" \o
             Cell(t, i, "dst_ip")[4] \o ":" \o ToString(Cell(t, i, "dst_port")[2]))
    ELSE Str(Cell(t, i, "dst_ip")[4] \o ":" \o ToString(Cell(t, i, "dst_port")[2])
             \o "-" \o
             Cell(t, i, "src_ip")[4] \o ":" \o ToString(Cell(t, i, "src_port")[2]))

\* src_ip + ':' + src_port.astype(str) + '-' + dst_ip + ':' + dst_port.astype(str)
ConnectionId(t, i) ==
    Str(Cell(t, i, "src_ip")[4] \o ":" \o ToString(Cell(t, i, "src_port")[2])
        \o "-" \o
        Cell(t, i, "dst_ip")[4] \o ":" \o ToString(Cell(t, i, "dst_port")[2]))

WithConnectionId(t) == SetCol(t, "connection_id", LAMBDA i : ConnectionId(t, i))

RECURSIVE Distinct(_)
Distinct(s) ==
    IF s = <<>> THEN <<>>
    ELSE LET front == Distinct(SubSeq(s, 1, Len(s) - 1))
             last  == s[Len(s)]
         IN  IF \E k \in 1..Len(front) : front[k] = last
             THEN front ELSE Append(front, last)

\* the groups of df.groupby('connection_id'), one per distinct key.  pandas
\* orders the groups by key; the model keeps them in order of first appearance
\* (the merge below looks rows up by key, whatever their order).
GroupKeys(t) ==
    Distinct(Eager([i \in 1..NRows(t) |-> Cell(t, i, "connection_id")]))

GroupRows(t, key) == {i \in 1..NRows(t) : Cell(t, i, "connection_id") = key}

RECURSIVE SumCells(_, _, _)
SumCells(t, S, c) ==
    IF S = {} THEN Num(0)
    ELSE LET i == CHOOSE x \in S : TRUE
         IN  NumAdd(Cell(t, i, c), SumCells(t, S \ {i}, c))

MinCell(t, S, c) ==
    Cell(t, CHOOSE i \in S : \A j \in S : NumLe(Cell(t, i, c), Cell(t, j, c)), c)
MaxCell(t, S, c) ==
    Cell(t, CHOOSE i \in S : \A j \in S : NumLe(Cell(t, j, c), Cell(t, i, c)), c)

Epsilon == Rat(1, 1000)

\* the denominator of both rates: duration + 0.001
RateDenominatorUnguarded(duration) == duration
RateDenominator(duration) == NumAdd(duration, Epsilon)

ConnStatsNames ==
    <<"connection_id", "start_time", "end_time", "packet_count", "total_bytes",
      "avg_packet_size", "total_payload", "avg_payload", "duration",
      "packets_per_second", "bytes_per_second">>

ConnStatsRow(t, key) ==
    LET S            == GroupRows(t, key)
        start_time   == MinCell(t, S, "timestamp")
        end_time     == MaxCell(t, S, "timestamp")
        packet_count == Num(Cardinality(S))
        total_bytes  == SumCells(t, S, "packet_size")
        total_payload == SumCells(t, S, "payload_size")
        duration     == NumSub(end_time, start_time)
    IN  <<key, start_time, end_time, packet_count, total_bytes,
          NumDiv(total_bytes, packet_count), total_payload,
          NumDiv(total_payload, packet_count), duration,
          NumDiv(packet_count, RateDenominator(duration)),
          NumDiv(total_bytes, RateDenominator(duration))>>

ConnStats(t) ==
    LET keys == GroupKeys(t)
    IN  [names |-> ConnStatsNames,
         rows  |-> Eager([g \in 1..Len(keys) |-> ConnStatsRow(t, keys[g])])]

\* the columns of `right` other than the join key
OtherCols(right, on) == Ascending({k \in 1..NCols(right) : right.names[k] # on})

\* right.merge(left, on=on, how='left') with the sides swapped: the rows come
\* out in the order of `right`
MergeRight(left, right, on) ==
    LET rest == OtherCols(right, on)
        joined(j) ==
            LET hits == Ascending({i \in 1..NRows(left) :
                                     Cell(left, i, on) = Cell(right, j, on)})
            IN  Eager([m \in 1..Len(hits) |->
                        left.rows[hits[m]]
                        \o [k \in 1..Len(rest) |-> right.rows[j][rest[k]]]])
    IN  [names |-> left.names \o [k \in 1..Len(rest) |-> right.names[rest[k]]],
         rows  |-> Flatten(Eager([j \in 1..NRows(right) |-> joined(j)]))]

\* left.merge(right, on=on, how='left'): every left row, in the order of
\* `left`, once per right row with the same key (once, with missing values,
\* when there is none)
MergeLeft(left, right, on) ==
    LET rest == OtherCols(right, on)
        joined(i) ==
            LET hits == Ascending({j \in 1..NRows(right) :
                                     Cell(right, j, on) = Cell(left, i, on)})
            IN  IF hits = <<>>
                THEN <<left.rows[i] \o [k \in 1..Len(rest) |-> NaN]>>
                ELSE Eager([m \in 1..Len(hits) |->
                        left.rows[i]
                        \o [k \in 1..Len(rest) |-> right.rows[hits[m]][rest[k]]]])
    IN  [names |-> left.names \o [k \in 1..Len(rest) |-> right.names[rest[k]]],
         rows  |-> Flatten(Eager([i \in 1..NRows(left) |-> joined(i)]))]

MergedStats ==
    <<"connection_id", "duration", "packet_count", "packets_per_second",
      "bytes_per_second">>

\* the `if len(df) > 0:` block
Aggregate(t) ==
    IF NRows(t) > 0
    THEN LET keyed == WithConnectionId(t)
         IN  MergeLeft(keyed, FrameSelect(ConnStats(keyed), MergedStats),
                       "connection_id")
    ELSE t

\* ------------------------------------------------------------ port category
WellKnownLimit == 1024
RegisteredLimit == 49152

\* categorize_port as nested in convert_pcap_to_csv (no test for a missing value)
pcap_categorize_port_inclusive(port) ==
    IF NumEq(port, Num(0)) THEN "unknown"
    ELSE IF NumLe(port, Num(WellKnownLimit)) THEN "well_known"
    ELSE IF NumLe(port, Num(RegisteredLimit)) THEN "registered"
    ELSE "dynamic"

pcap_categorize_port(port) ==
    IF NumEq(port, Num(0)) THEN "unknown"
    ELSE IF NumLt(port, Num(WellKnownLimit)) THEN "well_known"
    ELSE IF NumLt(port, Num(RegisteredLimit)) THEN "registered"
    ELSE "dynamic"

\* categorize_port of reorganize_csv
categorize_port(port) ==
    IF IsNaN(port) \/ NumEq(port, Num(0)) THEN "unknown"
    ELSE IF NumLt(port, Num(WellKnownLimit)) THEN "well_known"
    ELSE IF NumLt(port, Num(RegisteredLimit)) THEN "registered"
    ELSE "dynamic"

\* ---------------------------------------------------------- feature selector
PcapMlColumns ==
    <<"src_port", "dst_port", "protocol", "packet_size", "payload_size",
      "ttl", "has_syn", "has_ack", "has_fin", "has_rst", "has_psh",
      "window_size", "duration", "packet_count", "packets_per_second",
      "bytes_per_second", "port_category">>

\* [col for col in df.columns if col in ml_columns]: the table's order
SourceOrderColumns(allow, t) ==
    LET listed == {k \in 1..Len(t.names) :
                      \E a \in 1..Len(allow) : allow[a] = t.names[k]}
        idx == Ascending(listed)
    IN  Eager([k \in 1..Len(idx) |-> t.names[idx[k]]])

\* [col for col in ml_columns if col in df.columns]
RECURSIVE ExistingColumns(_, _)
ExistingColumns(allow, t) ==
    IF allow = <<>> THEN <<>>
    ELSE IF HasCol(t, Head(allow))
         THEN <<Head(allow)>> \o ExistingColumns(Tail(allow), t)
         ELSE ExistingColumns(Tail(allow), t)

\* df[ml_columns].copy() over the existing columns
SelectFeatures(t, allow) == FrameSelect(t, ExistingColumns(allow, t))

\* ------------------------------------------------ rearrange_threat_data
\* A text cell of a flow log holds its characters: Str(<<"8", "0">>).
Digits == {"0", "1", "2", "3", "4", "5", "6", "7", "8", "9"}
DigitValue(ch) ==
    CASE ch = "0" -> 0 [] ch = "1" -> 1 [] ch = "2" -> 2 [] ch = "3" -> 3
      [] ch = "4" -> 4 [] ch = "5" -> 5 [] ch = "6" -> 6 [] ch = "7" -> 7
      [] ch = "8" -> 8 [] ch = "9" -> 9

RECURSIVE DigitsValue(_)
DigitsValue(ds) ==
    IF ds = <<>> THEN 0
    ELSE DigitsValue(SubSeq(ds, 1, Len(ds) - 1)) * 10 + DigitValue(ds[Len(ds)])

RECURSIVE Pow10(_)
Pow10(n) == IF n = 0 THEN 1 ELSE 10 * Pow10(n - 1)

\* the number a text reads as: [-]digits[.digits] or [-]inf; NaN when it
\* reads as none
ParseNumber(chars) ==
    LET neg  == chars # <<>> /\ chars[1] = "-"
        body == IF neg THEN Tail(chars) ELSE chars
        dots == {k \in 1..Len(body) : body[k] = "."}
        dot  == IF dots = {} THEN Len(body) + 1 ELSE CHOOSE k \in dots : TRUE
        whole == SubSeq(body, 1, dot - 1)
        frac  == SubSeq(body, dot + 1, Len(body))
        sign  == IF neg THEN -1 ELSE 1
    IN  IF body = <<"i", "n", "f">> THEN (IF neg THEN NegInf ELSE Inf)
        ELSE IF /\ Cardinality(dots) <= 1
                /\ Len(whole) + Len(frac) > 0
                /\ \A k \in 1..Len(body) : body[k] \in Digits \cup {"."}
        THEN Rat(sign * (DigitsValue(whole) * Pow10(Len(frac)) + DigitsValue(frac)),
                 Pow10(Len(frac)))
        ELSE NaN

\* pd.to_numeric(errors='coerce') on one cell
ToNumeric(v) ==
    CASE v[1] = "str"  -> ParseNumber(v[4])
      [] v[1] = "bool" -> Num(v[2])
      [] OTHER -> v

Fillna(v, fill) == IF IsNaN(v) THEN fill ELSE v

\* str.strip() of a column header, given as its pieces (runs of white space
\* and words): the pieces between the first and the last word, joined
Whitespace == {" ", "\t"}
RECURSIVE Join(_)
Join(pieces) == IF pieces = <<>> THEN "" ELSE Head(pieces) \o Join(Tail(pieces))
Strip(pieces) ==
    LET words == {k \in 1..Len(pieces) : pieces[k] \notin Whitespace}
    IN  IF words = {} THEN ""
        ELSE LET first == CHOOSE k \in words : \A j \in words : k <= j
                 last  == CHOOSE k \in words : \A j \in words : k >= j
             IN  Join(SubSeq(pieces, first, last))

\* df.columns = df.columns.str.strip()
StripColumns(t) ==
    [t EXCEPT !.names = Eager([k \in 1..Len(t.names) |-> Strip(t.names[k])])]

\* a mapping one of whose canonical names is the source name of another entry
column_mapping_chained == ("duration" :> "ts") @@ ("ts" :> "timestamp")

column_mapping ==
    ("ts" :> "timestamp") @@ ("uid" :> "connection_id")
    @@ ("id.orig_h" :> "src_ip") @@ ("id.orig_p" :> "src_port")
    @@ ("id.resp_h" :> "dst_ip") @@ ("id.resp_p" :> "dst_port")
    @@ ("proto" :> "protocol") @@ ("service" :> "service")
    @@ ("duration" :> "duration") @@ ("orig_bytes" :> "bytes_sent")
    @@ ("resp_bytes" :> "bytes_received") @@ ("conn_state" :> "connection_state")
    @@ ("local_orig" :> "local_origin") @@ ("local_resp" :> "local_response")
    @@ ("missed_bytes" :> "missed_bytes") @@ ("history" :> "history")
    @@ ("orig_pkts" :> "packets_sent") @@ ("orig_ip_bytes" :> "ip_bytes_sent")
    @@ ("resp_pkts" :> "packets_received")
    @@ ("resp_ip_bytes" :> "ip_bytes_received")
    @@ ("tunnel_parents" :> "tunnel_parents") @@ ("label" :> "label")
    @@ ("detailed-label" :> "detailed_label")

\* a rename that leaves every label as it is
RenameNothing(t, mapping) == t

\* df.rename(columns={k: v for k, v in column_mapping.items() if k in df.columns})
RenameColumns(t, mapping) ==
    [t EXCEPT !.names =
        Eager([k \in 1..Len(t.names) |->
                 IF t.names[k] \in DOMAIN mapping
                 THEN mapping[t.names[k]] ELSE t.names[k]])]

\* df[c] = f(df[c]), f working cell by cell; every column labelled c
MapCol(t, c, F(_)) ==
    [t EXCEPT !.rows =
        Eager([i \in 1..Len(t.rows) |->
            Eager([k \in 1..Len(t.names) |->
                IF t.names[k] = c THEN F(t.rows[i][k]) ELSE t.rows[i][k]])])]

numeric_cols ==
    <<"src_port", "dst_port", "duration", "bytes_sent", "bytes_received",
      "missed_bytes", "packets_sent", "ip_bytes_sent", "packets_received",
      "ip_bytes_received">>
categorical_cols == <<"protocol", "service", "connection_state", "history">>
boolean_cols == <<"local_origin", "local_response">>

Unknown == Str(<<"u", "n", "k", "n", "o", "w", "n">>)
Normal  == Str(<<"n", "o", "r", "m", "a", "l">>)
Benign  == Str(<<"B", "e", "n", "i", "g", "n">>)

\* for col in numeric_cols: df[col] = pd.to_numeric(df[col], 'coerce').fillna(0)
RECURSIVE CoerceNumeric(_, _)
CoerceNumeric(t, cols) ==
    IF cols = <<>> THEN t
    ELSE CoerceNumeric(
            MapCol(t, Head(cols), LAMBDA v : Fillna(ToNumeric(v), Num(0))),
            Tail(cols))

\* pd.to_numeric takes a Series: df[col] of a repeated label is a DataFrame,
\* and pd.to_numeric raises TypeError
CoerceNumericRaises(t) ==
    \E k \in 1..Len(numeric_cols) : Cardinality(ColIdxs(t, numeric_cols[k])) > 1

\* for col in cols: df[col] = df[col].fillna(fill)
RECURSIVE FillColumns(_, _, _)
FillColumns(t, cols, fill) ==
    IF cols = <<>> THEN t
    ELSE FillColumns(MapCol(t, Head(cols), LAMBDA v : Fillna(v, fill)),
                     Tail(cols), fill)

\* the "Handling missing values" block
HandleMissing(t) ==
    LET numeric     == CoerceNumeric(t, numeric_cols)
        categorical == FillColumns(numeric, categorical_cols, Unknown)
        boolean     == FillColumns(categorical, boolean_cols, Bool(FALSE))
        labelled    == FillColumns(boolean, <<"label">>, Normal)
    IN  FillColumns(labelled, <<"detailed_label">>, Benign)

\* pd.cut(duration, bins=[-inf, 0.1, 1, 10, inf], labels=[...]): intervals
\* closed on the right; a value in no interval has no category
DurationCategory(d) ==
    IF ~IsNum(d) THEN (IF d = Inf THEN Str("long") ELSE NaN)
    ELSE IF NumLe(d, Rat(1, 10)) THEN Str("very_short")
    ELSE IF NumLe(d, Num(1)) THEN Str("short")
    ELSE IF NumLe(d, Num(10)) THEN Str("medium")
    ELSE Str("long")

\* df['history'].str.startswith(letter, na=False).astype(int) on one cell
StartsWith(v, letter) ==
    IF v[1] = "str" /\ v[4] # <<>> /\ v[4][1] = letter
    THEN Num(1) ELSE Num(0)

\* df['history'].str.contains(letter, na=False).astype(int) on one cell
Contains(v, letter) ==
    IF v[1] = "str" /\ \E k \in 1..Len(v[4]) : v[4][k] = letter
    THEN Num(1) ELSE Num(0)

\* total_bytes / total_packets without the np.where around it
BytesPerPacketUnguarded(total_bytes, total_packets) ==
    NumDiv(total_bytes, total_packets)

\* np.where(total_packets > 0, total_bytes / total_packets, 0) on one row
BytesPerPacket(total_bytes, total_packets) ==
    IF NumLt(Num(0), total_packets)
    THEN NumDiv(total_bytes, total_packets) ELSE Num(0)

AddTotals(t) ==
    LET bytes ==
            IF HasCol(t, "bytes_sent") /\ HasCol(t, "bytes_received")
            THEN SetCol(t, "total_bytes",
                        LAMBDA i : NumAdd(Cell(t, i, "bytes_sent"),
                                          Cell(t, i, "bytes_received")))
            ELSE t
        packets ==
            IF HasCol(bytes, "packets_sent") /\ HasCol(bytes, "packets_received")
            THEN SetCol(bytes, "total_packets",
                        LAMBDA i : NumAdd(Cell(bytes, i, "packets_sent"),
                                          Cell(bytes, i, "packets_received")))
            ELSE bytes
    IN  IF HasCol(packets, "total_bytes") /\ HasCol(packets, "total_packets")
        THEN SetCol(packets, "bytes_per_packet",
                    LAMBDA i : BytesPerPacket(Cell(packets, i, "total_bytes"),
                                              Cell(packets, i, "total_packets")))
        ELSE packets

AddCategories(t) ==
    LET duration ==
            IF HasCol(t, "duration")
            THEN SetCol(t, "duration_category",
                        LAMBDA i : DurationCategory(Cell(t, i, "duration")))
            ELSE t
    IN  IF HasCol(duration, "dst_port")
        THEN SetCol(duration, "port_category",
                    LAMBDA i : Str(categorize_port(Cell(duration, i, "dst_port"))))
        ELSE duration

AddFlag(t, name, letter) ==
    SetCol(t, name, LAMBDA i : Contains(Cell(t, i, "history"), letter))

AddFlags(t) ==
    IF HasCol(t, "history")
    THEN AddFlag(AddFlag(AddFlag(AddFlag(t, "has_syn", "S"),
                                 "has_ack", "A"), "has_fin", "F"), "has_rst", "R")
    ELSE t

\* df['history'] without the `if 'history' in df.columns` before it
AddFlagsUnguardedRaises(t) == Cardinality(ColIdxs(t, "history")) # 1

\* df['history'] of a repeated label is a DataFrame, which has no .str
AddFlagsRaises(t) == Cardinality(ColIdxs(t, "history")) > 1

\* the "Adding derived features" block
AddDerived(t) == AddFlags(AddCategories(AddTotals(t)))

FlowMlColumns ==
    <<"src_port", "dst_port", "protocol", "duration", "bytes_sent",
      "bytes_received", "total_bytes", "packets_sent", "packets_received",
      "total_packets", "bytes_per_packet", "connection_state", "has_syn",
      "has_ack", "has_fin", "has_rst", "port_category", "label">>

\* pd.read_csv(input_file, delimiter='|'): a column whose fields all read as
\* numbers is numeric, one whose fields are all True / False is boolean, any
\* other column keeps its texts; an empty field is missing (NaN)
TrueText  == <<"T", "r", "u", "e">>
FalseText == <<"F", "a", "l", "s", "e">>
ReadColumn(fields) ==
    LET filled == {i \in 1..Len(fields) : fields[i] # <<>>}
    IN  IF \A i \in filled : ~IsNaN(ParseNumber(fields[i]))
        THEN [i \in 1..Len(fields) |-> ParseNumber(fields[i])]
        ELSE IF \A i \in filled : fields[i] \in {TrueText, FalseText}
        THEN [i \in 1..Len(fields) |->
                IF i \in filled THEN Bool(fields[i] = TrueText) ELSE NaN]
        ELSE [i \in 1..Len(fields) |->
                IF i \in filled THEN Str(fields[i]) ELSE NaN]

read_csv(file) ==
    LET columns == [k \in 1..Len(file.names) |->
                      ReadColumn([i \in 1..Len(file.rows) |-> file.rows[i][k]])]
                   \o <<>>
    IN  [names |-> file.names,
         rows  |-> Eager([i \in 1..Len(file.rows) |->
                      Eager([k \in 1..Len(file.names) |-> columns[k][i]])])]

\* ------------------------------------------------------------ flow logs
\* The headers of a flow log, each as its pieces. The recognised ones whose
\* presence decides the derived features, in an order other than ml_columns':
CoreHeaders ==
    <<<<"label">>, <<"id.resp_p">>, <<"duration">>, <<"resp_bytes">>,
      <<"orig_bytes">>, <<"resp_pkts">>, <<"orig_pkts">>>>

\* further headers of a Zeek log, two of them padded with white space
ZeekHeaders ==
    <<<<" ", "ts", " ">>, <<"uid">>, <<"id.orig_p">>, <<"proto">>,
      <<"conn_state">>, <<"history", "\t">>, <<"local_orig">>,
      <<"detailed-label">>>>
\* a log holding a source name next to its canonical name
TwiceNamedHeaders ==
    <<<<"proto">>, <<"protocol">>, <<"detailed-label">>, <<"detailed_label">>>>
TwiceNumericHeaders == <<<<"bytes_sent">>>>
TwiceHistoryHeaders == <<<<"history">>, <<" ", "history">>>>
\* a log that already holds columns named as derived features
PrecomputedHeaders ==
    <<<<"total_bytes">>, <<"bytes_per_packet">>, <<"has_syn">>, <<"extra">>>>
UnlistedHeaders == <<<<"ts">>, <<"uid">>, <<"extra", " ">>>>

SubSeqAt(s, S) == LET idx == Ascending(S) IN [k \in 1..Len(idx) |-> s[idx[k]]] \o <<>>

HeaderLists ==
    ({SubSeqAt(CoreHeaders, S) : S \in SUBSET (1..Len(CoreHeaders))} \ {<<>>})
    \cup {aux \o core :
            aux \in {ZeekHeaders, TwiceNamedHeaders, TwiceNumericHeaders,
                     TwiceHistoryHeaders, PrecomputedHeaders, UnlistedHeaders},
            core \in {<<>>, CoreHeaders, SubSeqAt(CoreHeaders, {6, 7})}}

\* The fields a row may hold under a header, one per kind of row: a parsed
\* row, a row of empty fields, a row of Zeek's texts ("-" for unset), and a
\* row of zeros and negative numbers.
RowKinds == 1..4
Fields(header) ==
    LET name == Strip(header)
    IN  CASE name \in {"id.resp_p", "id.orig_p"} ->
                <<<<"4", "4", "3">>, <<>>, <<"-">>, <<"0">>>>
          [] name = "duration" ->
                <<<<"0", ".", "5">>, <<>>, <<"-">>, <<"-", "1">>>>
          [] name \in {"orig_bytes", "bytes_sent"} ->
                <<<<"1", "0", "0">>, <<>>, <<"4", "0">>, <<"-", "1", "0">>>>
          [] name = "resp_bytes" ->
                <<<<"2", "0", "0">>, <<>>, <<"-">>, <<"0">>>>
          [] name = "orig_pkts" ->
                <<<<"2">>, <<>>, <<"0">>, <<"1">>>>
          [] name = "resp_pkts" ->
                <<<<"3">>, <<>>, <<"0">>, <<"0">>>>
          [] name = "history" ->
                <<<<"S", "h", "A", "D", "F">>, <<>>, <<"s", "a">>, <<"R">>>>
          [] name \in {"proto", "protocol"} ->
                <<<<"t", "c", "p">>, <<>>, <<"u", "d", "p">>, <<"t", "c", "p">>>>
          [] name = "conn_state" ->
                <<<<"S", "F">>, <<>>, <<"S", "0">>, <<"R", "E", "J">>>>
          [] name = "label" ->
                <<<<"b", "a", "d">>, <<>>, <<"-">>, <<"B", "e", "n", "i", "g", "n">>>>
          [] name \in {"detailed-label", "detailed_label"} ->
                <<<<"D", "D", "o", "S">>, <<>>, <<"-">>, <<>>>>
          [] name = "local_orig" ->
                <<TrueText, <<>>, <<"T">>, FalseText>>
          [] name = "uid" ->
                <<<<"C", "1">>, <<>>, <<"C", "2">>, <<"C", "1">>>>
          [] OTHER ->
                <<<<"7">>, <<>>, <<"9">>, <<"0">>>>

FlowFile(headers, kinds) ==
    [names |-> headers,
     rows  |-> [i \in 1..Len(kinds) |->
                  [k \in 1..Len(headers) |-> Fields(headers[k])[kinds[i]]] \o <<>>]
               \o <<>>]

\* The durations a log may hold: the bin edges of duration_category and
\* values on either side of each, and the two infinities read_csv parses.
DurationFields ==
    {<<"0">>, <<"0", ".", "1">>, <<"0", ".", "1", "1">>, <<"1">>,
     <<"1", ".", "5">>, <<"1", "0">>, <<"1", "0", ".", "5">>,
     <<"i", "n", "f">>, <<"-", "i", "n", "f">>}
DurationFiles ==
    {[names |-> <<<<"duration">>>>,
      rows  |-> [i \in 1..Len(fields) |-> <<fields[i]>>] \o <<>>] :
        fields \in SeqsUpTo(DurationFields, MaxFlowRows)}

FlowFiles ==
    {FlowFile(headers, kinds) :
        headers \in HeaderLists, kinds \in SeqsUpTo(RowKinds, MaxFlowRows)}
    \cup DurationFiles

\* ----------------------------------------------------------- report renderer
\* sorted(items, key=..., reverse=True) on <<key, item>> pairs: Python's sort
\* is stable, also with reverse=True, so pairs of equal key keep their order.
RECURSIVE InsertDescending(_, _)
InsertDescending(sorted, x) ==
    IF sorted = <<>> THEN <<x>>
    ELSE IF Head(sorted)[1] >= x[1]
         THEN <<Head(sorted)>> \o InsertDescending(Tail(sorted), x)
         ELSE <<x>> \o sorted

RECURSIVE InsertAscending(_, _)
InsertAscending(sorted, x) ==
    IF sorted = <<>> THEN <<x>>
    ELSE IF Head(sorted)[1] <= x[1]
         THEN <<Head(sorted)>> \o InsertAscending(Tail(sorted), x)
         ELSE <<x>> \o sorted

RECURSIVE SortedAscending(_)
SortedAscending(s) ==
    IF s = <<>> THEN <<>>
    ELSE InsertAscending(SortedAscending(SubSeq(s, 1, Len(s) - 1)), s[Len(s)])

Reverse(s) == [i \in 1..Len(s) |-> s[Len(s) + 1 - i]]

\* sorted(items, key=...)[::-1]: descending, but pairs of equal key reversed
ReversedAscending(s) == Eager(Reverse(SortedAscending(s)))

RECURSIVE SortedDescending(_)
SortedDescending(s) ==
    IF s = <<>> THEN <<>>
    ELSE InsertDescending(SortedDescending(SubSeq(s, 1, Len(s) - 1)), s[Len(s)])

\* threats[label] = threats.get(label, 0) + 1 over the predictions: a dict,
\* which keeps its keys in the order of their insertion
RECURSIVE CountLabels(_)
CountLabels(preds) ==
    IF preds = <<>> THEN <<>>
    ELSE LET front == CountLabels(SubSeq(preds, 1, Len(preds) - 1))
             label == preds[Len(preds)].prediction
         IN  IF \E k \in 1..Len(front) : front[k][2] = label
             THEN [k \in 1..Len(front) |->
                     IF front[k][2] = label
                     THEN <<front[k][1] + 1, label>> ELSE front[k]] \o <<>>
             ELSE Append(front, <<1, label>>)

\* the lines in the dict's own order, were they not sorted
ThreatDistributionUnsorted(preds) == CountLabels(preds)

\* the lines of the threat distribution: <<count, label>>, as printed
ThreatDistribution(preds) == SortedDescending(CountLabels(preds))

\* [p for p in predictions if p['is_threat']]
RECURSIVE ThreatsOnly(_)
ThreatsOnly(preds) ==
    IF preds = <<>> THEN <<>>
    ELSE IF Head(preds).is_threat
         THEN <<Head(preds)>> \o ThreatsOnly(Tail(preds))
         ELSE ThreatsOnly(Tail(preds))

TopN == 10

\* threats_only.sort(key=confidence, reverse=True); threats_only[:10]
TopThreats(preds) ==
    LET threats == ThreatsOnly(preds)
        ranked  == SortedDescending(
                      Eager([k \in 1..Len(threats) |->
                                <<threats[k].confidence, threats[k]>>]))
        shown   == IF Len(ranked) < TopN THEN Len(ranked) ELSE TopN
    IN  Eager([k \in 1..shown |-> ranked[k][2]])

\* predictions[record_id]: a Python list index, 0-based; a negative index
\* counts from the end; outside -len..len-1 it raises IndexError
IndexInRange(preds, record_id) ==
    -Len(preds) <= record_id /\ record_id < Len(preds)
ListIndex(preds, record_id) ==
    IF record_id >= 0 THEN preds[record_id + 1]
    ELSE preds[Len(preds) + record_id + 1]

\* the `for analysis in result['llm_analysis']` loop: the <<record_id,
\* prediction>> lines printed before the loop ends or raises
RECURSIVE LlmLines(_, _)
LlmLines(preds, llm) ==
    IF llm = <<>> THEN <<>>
    ELSE IF IndexInRange(preds, Head(llm).record_id)
         THEN <<[record_id  |-> Head(llm).record_id,
                 prediction |-> ListIndex(preds, Head(llm).record_id)]>>
              \o LlmLines(preds, Tail(llm))
         ELSE <<>>

LlmRaises(preds, llm) ==
    \E k \in 1..Len(llm) : ~IndexInRange(preds, llm[k].record_id)

\* ------------------------------------------- the classification service
\* what the service says of one record: a label, a confidence (in percent)
\* and whether it is a threat (a label other than normal may fall below the
\* threshold and be no threat)
Verdicts ==
    {[prediction |-> "normal",    confidence |-> 90, is_threat |-> FALSE],
     [prediction |-> "ddos",      confidence |-> 90, is_threat |-> TRUE],
     [prediction |-> "ddos",      confidence |-> 95, is_threat |-> TRUE],
     [prediction |-> "port_scan", confidence |-> 95, is_threat |-> TRUE],
     [prediction |-> "ddos",      confidence |-> 95, is_threat |-> FALSE]}

\* the predictions of a response: one per record, record_id the row index.
\* n records whose verdicts repeat those of `prefix`
PredictionsOf(prefix, n) ==
    [i \in 1..n |->
        LET v == prefix[((i - 1) % Len(prefix)) + 1]
        IN  [record_id |-> i - 1, prediction |-> v.prediction,
             confidence |-> v.confidence, is_threat |-> v.is_threat]] \o <<>>

PredictionLists ==
    {PredictionsOf(prefix, Len(prefix)) : prefix \in SeqsUpTo(Verdicts, MaxPrefix)}
    \cup {PredictionsOf(prefix, n) :
            prefix \in SeqsUpTo(Verdicts, MaxPrefix) \ {<<>>},
            n \in {TopN + 1, MaxPreds}}

\* llm_analysis: absent, or one entry, whose record_id the service chose
LlmAnalyses(preds) ==
    {<<>>} \cup {<<[record_id |-> r, analysis |-> "text"]>> :
                    r \in {-1, 0, Len(preds) - 1, Len(preds)}}

NoResult == [total_records |-> 0, predictions |-> <<>>, llm_analysis |-> <<>>]
NoReport == [distribution |-> <<>>, top |-> <<>>, llm |-> <<>>]

\* ------------------------------------------------ the client's operations
\* PCAP_SUPPORT_AVAILABLE = SCAPY_AVAILABLE, as imported from pcap_converter
PcapSupportAssumed(scapy) == TRUE
PCAP_SUPPORT_AVAILABLE(scapy) == scapy

\* A file a caller may name: its extension, what is at the path (a table or
\* a capture, bytes that do not parse, or nothing) and how many rows (IP
\* packets, for a capture) it holds.
NoFile == [ext |-> "none", content |-> "missing", rows |-> 0]
FileRowCounts == (0..MaxPrefix) \cup {TopN + 1, MaxPreds}
DataFiles ==
    {[ext |-> "csv", content |-> "table", rows |-> n] : n \in FileRowCounts}
    \cup {[ext |-> e, content |-> c, rows |-> 0] :
            e \in {"csv", "json", "pcap"}, c \in {"malformed", "missing"}}
    \cup {[ext |-> "json", content |-> "table", rows |-> 1],
          [ext |-> "txt", content |-> "table", rows |-> 1]}
    \cup {[ext |-> "pcap", content |-> "capture", rows |-> n] : n \in 0..MaxPackets}

\* is_pcap_file(file_path)
is_pcap_file(file) == file.ext = "pcap"

\* convert_pcap_to_csv(pcap_file) as its caller sees it: it raises ImportError
\* without scapy, it raises when rdpcap cannot read the file and when the
\* capture holds no IP packet (KeyError at df['dst_port']), and writes one
\* row per IP packet otherwise
ConversionRaises(scapy, file) ==
    ~scapy \/ file.content # "capture" \/ file.rows = 0

\* pd.read_csv / pd.read_json raise on a missing or malformed file, and
\* load_data raises ValueError for another extension
ReadRaises(file) == file.ext \notin {"csv", "json"} \/ file.content # "table"

Records(n) == [i \in 1..n |-> i] \o <<>>

\* `if not network_data: return`, negated
AlwaysHasRecords(records) == TRUE
HasRecords(records) == records # <<>>

\* one call of requests.get / requests.post
SendWithRetry(sent) == sent + 2
SendOnce(sent) == sent + 1

\* what load_data's except Exception logs
LoadFailureAsGeneric == "Error"
LoadFailureReport == "Failed to load data"

\* what the service may do to a request: answer with a status, or the
\* request raises
FailureStatuses == {401, 403, 503, 500}
RequestErrors == {"ConnectionError", "Timeout"}

\* the message logged with _log_error for a request that raised `err`, or
\* that was answered with `status` when err = "none"
ErrorReport(op, err, status) ==
    CASE op = "analyze" ->
            (CASE err # "none" -> "Error"
               [] status = 401 -> "Invalid API key"
               [] status = 503 -> "ML model not available"
               [] OTHER -> "Analysis failed")
      [] op = "check_connection" ->
            (CASE err = "ConnectionError" -> "Cannot connect"
               [] err # "none" -> "Error"
               [] OTHER -> "API returned error")
      [] op = "list_models" ->
            (CASE err = "ConnectionError" -> "Cannot connect"
               [] err # "none" -> "Error"
               [] status = 401 -> "Invalid API key"
               [] status = 403 -> "Access denied"
               [] OTHER -> "Failed with status")

\* ------------------------------------------------------------------- state
VARIABLES
    SCAPY_AVAILABLE,  \* pcap_converter: whether scapy could be imported
    conv_pc,          \* where convert_pcap_to_csv stands
    conv_err,         \* the exception convert_pcap_to_csv raised, or "none"
    packets,          \* what rdpcap returned
    data,             \* the list of extracted records
    df,               \* the DataFrame (as it stands when the function ends)
    df_ml,            \* the selected features
    csv_out           \* the table written to the output file

VARIABLES
    port,             \* categorize_port: the value it is applied to
    port_pc,          \* "input" before, "categorized" after
    category_pcap,    \* what convert_pcap_to_csv's categorize_port returned
    category_flow     \* what reorganize_csv's categorize_port returned

VARIABLES
    an_pc,            \* where ThreatDetectorClient.analyze stands
    save_results,     \* analyze's save_results argument
    status_code,      \* response.status_code, 0 while there is no response
    result,           \* response.json() of POST /analyze
    report,           \* what _display_results printed
    log,              \* the messages analyze logged after the request
    results_file      \* the content of <stem>_results.json, NoResult if unwritten

VARIABLES
    operation,        \* the client operation invoked
    data_file,        \* analyze / convert_pcap: the file named by the caller
    network_data,     \* analyze: the records load_data returned (row indices)
    requests_sent,    \* HTTP requests issued to the classification service
    request_error,    \* the exception requests raised, "none" if none
    client_ret        \* what the operation returned, "none" while it runs

VARIABLES
    CSV_REORGANIZER_AVAILABLE,  \* whether reorganize_csv could be imported
    menu_pc,          \* interactive_mode: the prompt it waits at
    menu_choices,     \* the options selected so far, the current one last
    menu_threshold,   \* the text typed at the confidence threshold prompt
    menu_exc          \* the exception that ended interactive_mode, if any

VARIABLES
    caller,           \* who called rearrange_threat_data: "client", "main"
    caller_pc,        \* "calling" until the caller has ended, then "done"
    caller_report,    \* what the caller reported at its end
    caller_exc        \* the exception that left the caller, "none" if none

VARIABLES
    flow_pc,          \* where rearrange_threat_data stands
    flow_err,         \* the exception it met, "none" if none
    input_file,       \* the pipe-delimited file: headers and fields as text
    flow_df,          \* its df
    flow_ml,          \* its df_ml
    flow_ret,         \* what it returned: "None", "pair", "NonePair"
    flow_pass,        \* 2 when the steps run again, on the first run's df
    flow_first        \* the df the first run returned

pcapVars ==
    <<SCAPY_AVAILABLE, conv_pc, conv_err, packets, data, df, df_ml, csv_out>>
portVars == <<port, port_pc, category_pcap, category_flow>>

analyzeVars == <<an_pc, save_results, status_code, result, report, log, results_file>>
callVars ==
    <<operation, data_file, network_data, requests_sent, request_error, client_ret>>

flowVars ==
    <<flow_pc, flow_err, input_file, flow_df, flow_ml, flow_ret, flow_pass,
      flow_first>>

callerVars == <<caller, caller_pc, caller_report, caller_exc>>
menuVars ==
    <<CSV_REORGANIZER_AVAILABLE, menu_pc, menu_choices, menu_threshold, menu_exc>>
vars ==
    <<pcapVars, portVars, flowVars, analyzeVars, callVars, callerVars, menuVars>>

\* what each component leaves alone
besidePcap == <<portVars, flowVars, analyzeVars, callVars, callerVars, menuVars>>
besidePort == <<pcapVars, flowVars, analyzeVars, callVars, callerVars, menuVars>>
besideFlow == <<pcapVars, portVars, analyzeVars, callVars, callerVars, menuVars>>
besideAnalyze == <<pcapVars, portVars, flowVars, callerVars, menuVars>>
besideCaller == <<pcapVars, portVars, flowVars, analyzeVars, callVars, menuVars>>
besideMenu == <<pcapVars, portVars, flowVars, analyzeVars, callVars, callerVars>>

\* a component that is not running
IdlePcap ==
    /\ SCAPY_AVAILABLE = FALSE
    /\ conv_pc = "idle"
    /\ conv_err = "none"
    /\ packets = <<>>
    /\ data = <<>>
    /\ df = EmptyFrame
    /\ df_ml = EmptyFrame
    /\ csv_out = EmptyFrame

IdlePort ==
    /\ port = NaN
    /\ port_pc = "idle"
    /\ category_pcap = "none"
    /\ category_flow = "none"

IdleCaller ==
    /\ caller = "none"
    /\ caller_pc = "idle"
    /\ caller_report = "none"
    /\ caller_exc = "none"

IdleFlow ==
    /\ IdleCaller
    /\ flow_pc = "idle"
    /\ flow_err = "none"
    /\ input_file = EmptyFrame
    /\ flow_df = EmptyFrame
    /\ flow_ml = EmptyFrame
    /\ flow_ret = "none"
    /\ flow_pass = 1
    /\ flow_first = EmptyFrame

IdleMenu ==
    /\ CSV_REORGANIZER_AVAILABLE = FALSE
    /\ menu_pc = "idle"
    /\ menu_choices = <<>>
    /\ menu_threshold = <<>>
    /\ menu_exc = "none"

IdleAnalyze ==
    /\ IdleMenu
    /\ an_pc = "idle"
    /\ save_results = FALSE
    /\ status_code = 0
    /\ result = NoResult
    /\ report = NoReport
    /\ log = <<>>
    /\ results_file = NoResult
    /\ operation = "none"
    /\ data_file = NoFile
    /\ network_data = <<>>
    /\ requests_sent = 0
    /\ request_error = "none"
    /\ client_ret = "none"

\* ------------------------------------------------- convert_pcap_to_csv
InitPcap ==
    /\ SCAPY_AVAILABLE \in BOOLEAN
    /\ conv_pc = "start"
    /\ conv_err = "none"
    /\ packets = <<>>
    /\ data = <<>>
    /\ df = EmptyFrame
    /\ df_ml = EmptyFrame
    /\ csv_out = EmptyFrame
    /\ IdlePort
    /\ IdleFlow
    /\ IdleAnalyze

\* if not SCAPY_AVAILABLE: raise ImportError
RaiseImportError ==
    /\ conv_pc = "start"
    /\ ~SCAPY_AVAILABLE
    /\ conv_pc' = "failed"
    /\ conv_err' = "ImportError"
    /\ UNCHANGED <<SCAPY_AVAILABLE, packets, data, df, df_ml, csv_out>>
    /\ UNCHANGED besidePcap

\* packets = rdpcap(pcap_file)
ReadPcap ==
    /\ conv_pc = "start"
    /\ SCAPY_AVAILABLE
    /\ \E pkts \in SeqsUpTo(Packets, MaxPackets) : packets' = pkts
    /\ conv_pc' = "loaded"
    /\ UNCHANGED <<SCAPY_AVAILABLE, conv_err, data, df, df_ml, csv_out>>
    /\ UNCHANGED besidePcap

\* rdpcap raises on a file it cannot read
ReadPcapFails ==
    /\ conv_pc = "start"
    /\ SCAPY_AVAILABLE
    /\ conv_pc' = "failed"
    /\ conv_err' = "ReadError"
    /\ UNCHANGED <<SCAPY_AVAILABLE, packets, data, df, df_ml, csv_out>>
    /\ UNCHANGED besidePcap

\* the loop over the packets and pd.DataFrame(data)
ExtractStep ==
    /\ conv_pc = "loaded"
    /\ data' = ExtractFeatures(packets)
    /\ df' = DataFrameOf(ExtractFeatures(packets))
    /\ conv_pc' = "extracted"
    /\ UNCHANGED <<SCAPY_AVAILABLE, conv_err, packets, df_ml, csv_out>>
    /\ UNCHANGED besidePcap

\* the per-connection statistics, merged back (skipped on an empty frame)
AggregateStep ==
    /\ conv_pc = "extracted"
    /\ df' = Aggregate(df)
    /\ conv_pc' = "aggregated"
    /\ UNCHANGED <<SCAPY_AVAILABLE, conv_err, packets, data, df_ml, csv_out>>
    /\ UNCHANGED besidePcap

\* df['port_category'] = df['dst_port'].apply(categorize_port)
CategorizeStep ==
    /\ conv_pc = "aggregated"
    /\ HasCol(df, "dst_port")
    /\ df' = SetCol(df, "port_category",
                    LAMBDA i : Str(pcap_categorize_port(Cell(df, i, "dst_port"))))
    /\ conv_pc' = "categorized"
    /\ UNCHANGED <<SCAPY_AVAILABLE, conv_err, packets, data, df_ml, csv_out>>
    /\ UNCHANGED besidePcap

\* df['dst_port'] raises KeyError on a frame without that column
CategorizeKeyError ==
    /\ conv_pc = "aggregated"
    /\ ~HasCol(df, "dst_port")
    /\ conv_pc' = "failed"
    /\ conv_err' = "KeyError"
    /\ UNCHANGED <<SCAPY_AVAILABLE, packets, data, df, df_ml, csv_out>>
    /\ UNCHANGED besidePcap

\* the selection of the ML columns, fillna(0) and to_csv
SelectStep ==
    /\ conv_pc = "categorized"
    /\ df_ml' = FrameFillna(SelectFeatures(df, PcapMlColumns), Num(0))
    /\ csv_out' = FrameFillna(SelectFeatures(df, PcapMlColumns), Num(0))
    /\ conv_pc' = "done"
    /\ UNCHANGED <<SCAPY_AVAILABLE, conv_err, packets, data, df>>
    /\ UNCHANGED besidePcap

NextPcap ==
    \/ RaiseImportError
    \/ ReadPcap
    \/ ReadPcapFails
    \/ ExtractStep
    \/ AggregateStep
    \/ CategorizeStep
    \/ CategorizeKeyError
    \/ SelectStep

SpecPcap == InitPcap /\ [][NextPcap]_vars

\* ------------------------------------------------- categorize_port, applied
InitPort ==
    /\ port \in {Num(p) : p \in 0..MaxPort} \cup {NaN}
    /\ port_pc = "input"
    /\ category_pcap = "none"
    /\ category_flow = "none"
    /\ IdlePcap
    /\ IdleFlow
    /\ IdleAnalyze

\* df['dst_port'].apply(categorize_port), on both paths
ApplyCategorizePort ==
    /\ port_pc = "input"
    /\ category_pcap' = pcap_categorize_port(port)
    /\ category_flow' = categorize_port(port)
    /\ port_pc' = "categorized"
    /\ UNCHANGED port
    /\ UNCHANGED besidePort

NextPort == ApplyCategorizePort

SpecPort == InitPort /\ [][NextPort]_vars



\* ------------------------------------------------ rearrange_threat_data
InitFlowRun ==
    /\ flow_pc = "start"
    /\ flow_err = "none"
    /\ input_file \in FlowFiles
    /\ flow_df = EmptyFrame
    /\ flow_ml = EmptyFrame
    /\ flow_ret = "none"
    /\ flow_pass = 1
    /\ flow_first = EmptyFrame
    /\ IdlePcap
    /\ IdlePort
    /\ IdleAnalyze

InitFlow == InitFlowRun /\ IdleCaller

\* df = pd.read_csv(input_file, delimiter='|', low_memory=False)
ReadCsv ==
    /\ flow_pc = "start"
    /\ flow_df' = read_csv(input_file)
    /\ flow_pc' = "loaded"
    /\ UNCHANGED <<flow_err, input_file, flow_ml, flow_ret, flow_pass, flow_first>>
    /\ UNCHANGED besideFlow

\* except Exception as e: print(...); return None
ReadCsvRaises ==
    /\ flow_pc = "start"
    /\ flow_err' = "ReadError"
    /\ flow_ret' = "None"
    /\ flow_pc' = "returned"
    /\ UNCHANGED <<input_file, flow_df, flow_ml, flow_pass, flow_first>>
    /\ UNCHANGED besideFlow

\* df.columns = df.columns.str.strip(); df.rename(columns=..., inplace=True)
CleanColumns ==
    /\ flow_pc = "loaded"
    /\ flow_df' = RenameColumns(StripColumns(flow_df), column_mapping)
    /\ flow_pc' = "renamed"
    /\ UNCHANGED <<flow_err, input_file, flow_ml, flow_ret, flow_pass, flow_first>>
    /\ UNCHANGED besideFlow

\* the "Handling missing values" block
HandleMissingValues ==
    /\ flow_pc = "renamed"
    /\ ~CoerceNumericRaises(flow_df)
    /\ flow_df' = HandleMissing(flow_df)
    /\ flow_pc' = "filled"
    /\ UNCHANGED <<flow_err, input_file, flow_ml, flow_ret, flow_pass, flow_first>>
    /\ UNCHANGED besideFlow

\* pd.to_numeric raises TypeError; nothing in rearrange_threat_data catches it
HandleMissingValuesRaises ==
    /\ flow_pc = "renamed"
    /\ CoerceNumericRaises(flow_df)
    /\ flow_err' = "TypeError"
    /\ flow_pc' = "raised"
    /\ UNCHANGED <<input_file, flow_df, flow_ml, flow_ret, flow_pass, flow_first>>
    /\ UNCHANGED besideFlow

\* the "Adding derived features" block
AddDerivedFeatures ==
    /\ flow_pc = "filled"
    /\ ~AddFlagsRaises(flow_df)
    /\ flow_df' = AddDerived(flow_df)
    /\ flow_pc' = "derived"
    /\ UNCHANGED <<flow_err, input_file, flow_ml, flow_ret, flow_pass, flow_first>>
    /\ UNCHANGED besideFlow

\* df['history'].str raises AttributeError, uncaught
AddDerivedFeaturesRaises ==
    /\ flow_pc = "filled"
    /\ AddFlagsRaises(flow_df)
    /\ flow_err' = "AttributeError"
    /\ flow_pc' = "raised"
    /\ UNCHANGED <<input_file, flow_df, flow_ml, flow_ret, flow_pass, flow_first>>
    /\ UNCHANGED besideFlow

\* ml_columns = [col for col in ml_columns if col in df.columns]
\* df_ml = df[ml_columns].copy()
SelectMlColumns ==
    /\ flow_pc = "derived"
    /\ flow_ml' = SelectFeatures(flow_df, FlowMlColumns)
    /\ flow_pc' = "selected"
    /\ UNCHANGED <<flow_err, input_file, flow_df, flow_ret, flow_pass, flow_first>>
    /\ UNCHANGED besideFlow

\* df.to_csv(...); df_ml.to_csv(...); return df, df_ml
SaveFiles ==
    /\ flow_pc = "selected"
    /\ flow_ret' = "pair"
    /\ flow_pc' = "returned"
    /\ UNCHANGED <<flow_err, input_file, flow_df, flow_ml, flow_pass, flow_first>>
    /\ UNCHANGED besideFlow

\* except Exception as e: print(...); return None, None
SaveFilesRaises ==
    /\ flow_pc = "selected"
    /\ flow_err' = "SaveError"
    /\ flow_ret' = "NonePair"
    /\ flow_pc' = "returned"
    /\ UNCHANGED <<input_file, flow_df, flow_ml, flow_pass, flow_first>>
    /\ UNCHANGED besideFlow

\* the steps once more, on the df the first run returned: its labels are the
\* headers now, each one piece
Renormalize ==
    /\ flow_pc = "returned"
    /\ flow_ret = "pair"
    /\ flow_pass = 1
    /\ flow_first' = flow_df
    /\ flow_df' = [flow_df EXCEPT !.names =
                      Eager([k \in 1..Len(flow_df.names) |-> <<flow_df.names[k]>>])]
    /\ flow_pass' = 2
    /\ flow_pc' = "loaded"
    /\ flow_ret' = "none"
    /\ UNCHANGED <<flow_err, input_file, flow_ml>>
    /\ UNCHANGED besideFlow

NextFlow ==
    \/ ReadCsv
    \/ ReadCsvRaises
    \/ CleanColumns
    \/ HandleMissingValues
    \/ HandleMissingValuesRaises
    \/ AddDerivedFeatures
    \/ AddDerivedFeaturesRaises
    \/ SelectMlColumns
    \/ SaveFiles
    \/ SaveFilesRaises
    \/ Renormalize

SpecFlow == InitFlow /\ [][NextFlow]_vars

\* ------------------------------------ the callers of rearrange_threat_data
\* ThreatDetectorClient.reorganize_csv and the script's __main__ block, on a
\* file that exists: both run `df_full, df_ml = rearrange_threat_data(...)`.
InitReorganize ==
    /\ InitFlowRun
    /\ caller \in {"client", "main"}
    /\ caller_pc = "calling"
    /\ caller_report = "none"
    /\ caller_exc = "none"

\* an exception met in the caller's body: reorganize_csv's except Exception
\* logs it and returns False; the __main__ block has no handler
HandleException(who, exc) ==
    IF who = "client"
    THEN [report |-> "Error during reorganization", exc |-> "none"]
    ELSE [report |-> "none", exc |-> exc]

\* rearrange_threat_data returned None: unpacking it as a pair raises
\* TypeError (cannot unpack non-iterable NoneType object)
UnpackRaises ==
    /\ caller_pc = "calling"
    /\ flow_pc = "returned"
    /\ flow_ret = "None"
    /\ caller_report' = HandleException(caller, "TypeError").report
    /\ caller_exc' = HandleException(caller, "TypeError").exc
    /\ caller_pc' = "done"
    /\ UNCHANGED caller
    /\ UNCHANGED besideCaller

\* rearrange_threat_data raised: the exception reaches the caller
CallRaises ==
    /\ caller_pc = "calling"
    /\ flow_pc = "raised"
    /\ caller_report' = HandleException(caller, flow_err).report
    /\ caller_exc' = HandleException(caller, flow_err).exc
    /\ caller_pc' = "done"
    /\ UNCHANGED caller
    /\ UNCHANGED besideCaller

\* df_full, df_ml = None, None: the else branch reports the failure
ReportFailure ==
    /\ caller_pc = "calling"
    /\ flow_pc = "returned"
    /\ flow_ret = "NonePair"
    /\ caller_report' = "Reorganization failed"
    /\ caller_pc' = "done"
    /\ UNCHANGED <<caller, caller_exc>>
    /\ UNCHANGED besideCaller

\* both frames returned: "CSV reorganization complete!" / "ALL DONE!"
ReportSuccess ==
    /\ caller_pc = "calling"
    /\ flow_pc = "returned"
    /\ flow_ret = "pair"
    /\ caller_report' = "Reorganization complete"
    /\ caller_pc' = "done"
    /\ UNCHANGED <<caller, caller_exc>>
    /\ UNCHANGED besideCaller

NextReorganize ==
    \/ NextFlow
    \/ UnpackRaises
    \/ CallRaises
    \/ ReportFailure
    \/ ReportSuccess

SpecReorganize == InitReorganize /\ [][NextReorganize]_vars

\* ------------------------------------------------ ThreatDetectorClient
\* One invocation of a client operation; the module-level flags are as the
\* imports left them.
InitAnalyze ==
    /\ operation \in {"analyze", "check_connection", "list_models", "convert_pcap"}
    /\ an_pc = "start"
    /\ data_file \in IF operation = "analyze" THEN DataFiles
                     ELSE IF operation = "convert_pcap"
                          THEN {f \in DataFiles : is_pcap_file(f)}
                          ELSE {NoFile}
    /\ save_results \in IF operation = "analyze" THEN BOOLEAN ELSE {FALSE}
    /\ SCAPY_AVAILABLE \in BOOLEAN
    /\ network_data = <<>>
    /\ requests_sent = 0
    /\ request_error = "none"
    /\ client_ret = "none"
    /\ status_code = 0
    /\ result = NoResult
    /\ report = NoReport
    /\ log = <<>>
    /\ results_file = NoResult
    /\ conv_pc = "idle"
    /\ conv_err = "none"
    /\ packets = <<>>
    /\ data = <<>>
    /\ df = EmptyFrame
    /\ df_ml = EmptyFrame
    /\ csv_out = EmptyFrame
    /\ IdlePort
    /\ IdleFlow
    /\ IdleMenu

\* convert_pcap: if not PCAP_SUPPORT_AVAILABLE: log, return None
ConvertPcapUnavailable ==
    /\ operation = "convert_pcap"
    /\ an_pc = "start"
    /\ ~PCAP_SUPPORT_AVAILABLE(SCAPY_AVAILABLE)
    /\ log' = Append(log, "PCAP support not available")
    /\ client_ret' = "None"
    /\ an_pc' = "done"
    /\ UNCHANGED <<save_results, status_code, result, report, results_file>>
    /\ UNCHANGED <<operation, data_file, network_data, requests_sent, request_error>>
    /\ UNCHANGED besideAnalyze

\* convert_pcap: csv_file = convert_pcap_to_csv(...); return csv_file
ConvertPcapReturns ==
    /\ operation = "convert_pcap"
    /\ an_pc = "start"
    /\ PCAP_SUPPORT_AVAILABLE(SCAPY_AVAILABLE)
    /\ ~ConversionRaises(SCAPY_AVAILABLE, data_file)
    /\ client_ret' = "csv_file"
    /\ an_pc' = "done"
    /\ UNCHANGED <<save_results, status_code, result, report, log, results_file>>
    /\ UNCHANGED <<operation, data_file, network_data, requests_sent, request_error>>
    /\ UNCHANGED besideAnalyze

\* convert_pcap: except Exception: "PCAP conversion failed", return None
ConvertPcapFails ==
    /\ operation = "convert_pcap"
    /\ an_pc = "start"
    /\ PCAP_SUPPORT_AVAILABLE(SCAPY_AVAILABLE)
    /\ ConversionRaises(SCAPY_AVAILABLE, data_file)
    /\ log' = Append(log, "PCAP conversion failed")
    /\ client_ret' = "None"
    /\ an_pc' = "done"
    /\ UNCHANGED <<save_results, status_code, result, report, results_file>>
    /\ UNCHANGED <<operation, data_file, network_data, requests_sent, request_error>>
    /\ UNCHANGED besideAnalyze

\* load_data on a capture without PCAP support: log, return []
LoadPcapUnavailable ==
    /\ operation = "analyze"
    /\ an_pc = "start"
    /\ is_pcap_file(data_file)
    /\ ~PCAP_SUPPORT_AVAILABLE(SCAPY_AVAILABLE)
    /\ log' = Append(log, "PCAP support not available")
    /\ network_data' = <<>>
    /\ an_pc' = "loaded"
    /\ UNCHANGED <<save_results, status_code, result, report, results_file>>
    /\ UNCHANGED <<operation, data_file, requests_sent, request_error, client_ret>>
    /\ UNCHANGED besideAnalyze

\* load_data on a capture: self.convert_pcap(file_path) returns None after
\* logging "PCAP conversion failed"; load_data returns []
LoadPcapConversionFails ==
    /\ operation = "analyze"
    /\ an_pc = "start"
    /\ is_pcap_file(data_file)
    /\ PCAP_SUPPORT_AVAILABLE(SCAPY_AVAILABLE)
    /\ ConversionRaises(SCAPY_AVAILABLE, data_file)
    /\ log' = Append(log, "PCAP conversion failed")
    /\ network_data' = <<>>
    /\ an_pc' = "loaded"
    /\ UNCHANGED <<save_results, status_code, result, report, results_file>>
    /\ UNCHANGED <<operation, data_file, requests_sent, request_error, client_ret>>
    /\ UNCHANGED besideAnalyze

\* load_data on a capture: converted, then the CSV written is read
LoadPcapConverted ==
    /\ operation = "analyze"
    /\ an_pc = "start"
    /\ is_pcap_file(data_file)
    /\ PCAP_SUPPORT_AVAILABLE(SCAPY_AVAILABLE)
    /\ ~ConversionRaises(SCAPY_AVAILABLE, data_file)
    /\ network_data' = Records(data_file.rows)
    /\ an_pc' = "loaded"
    /\ UNCHANGED <<save_results, status_code, result, report, log, results_file>>
    /\ UNCHANGED <<operation, data_file, requests_sent, request_error, client_ret>>
    /\ UNCHANGED besideAnalyze

\* load_data: df = pd.read_csv / pd.read_json; df.fillna(0).to_dict('records')
LoadTable ==
    /\ operation = "analyze"
    /\ an_pc = "start"
    /\ ~is_pcap_file(data_file)
    /\ ~ReadRaises(data_file)
    /\ network_data' = Records(data_file.rows)
    /\ an_pc' = "loaded"
    /\ UNCHANGED <<save_results, status_code, result, report, log, results_file>>
    /\ UNCHANGED <<operation, data_file, requests_sent, request_error, client_ret>>
    /\ UNCHANGED besideAnalyze

\* load_data: except Exception as e: "Failed to load data: ...", return []
LoadFails ==
    /\ operation = "analyze"
    /\ an_pc = "start"
    /\ ~is_pcap_file(data_file)
    /\ ReadRaises(data_file)
    /\ log' = Append(log, LoadFailureReport)
    /\ network_data' = <<>>
    /\ an_pc' = "loaded"
    /\ UNCHANGED <<save_results, status_code, result, report, results_file>>
    /\ UNCHANGED <<operation, data_file, requests_sent, request_error, client_ret>>
    /\ UNCHANGED besideAnalyze

\* analyze: if not network_data: return
ReturnWithoutData ==
    /\ an_pc = "loaded"
    /\ ~HasRecords(network_data)
    /\ an_pc' = "done"
    /\ UNCHANGED <<save_results, status_code, result, report, log, results_file>>
    /\ UNCHANGED callVars
    /\ UNCHANGED besideAnalyze

\* requests.post raises (ConnectionError, Timeout): except Exception logs it
PostRaises ==
    /\ an_pc = "loaded"
    /\ HasRecords(network_data)
    /\ requests_sent' = SendOnce(requests_sent)
    /\ \E err \in RequestErrors :
          /\ request_error' = err
          /\ log' = Append(log, ErrorReport(operation, err, 0))
    /\ an_pc' = "done"
    /\ UNCHANGED <<save_results, status_code, result, report, results_file>>
    /\ UNCHANGED <<operation, data_file, network_data, client_ret>>
    /\ UNCHANGED besideAnalyze

\* a status other than 200
PostRefused ==
    /\ an_pc = "loaded"
    /\ HasRecords(network_data)
    /\ requests_sent' = SendOnce(requests_sent)
    /\ \E status \in FailureStatuses :
          /\ status_code' = status
          /\ log' = Append(log, ErrorReport(operation, "none", status))
    /\ an_pc' = "done"
    /\ UNCHANGED <<save_results, result, report, results_file>>
    /\ UNCHANGED <<operation, data_file, network_data, request_error, client_ret>>
    /\ UNCHANGED besideAnalyze

\* status 200: result = response.json(), one prediction per record sent
PostAccepted ==
    /\ an_pc = "loaded"
    /\ HasRecords(network_data)
    /\ requests_sent' = SendOnce(requests_sent)
    /\ \E preds \in {p \in PredictionLists : Len(p) = Len(network_data)} :
       \E llm \in LlmAnalyses(preds) :
          result' = [total_records |-> Len(preds), predictions |-> preds,
                     llm_analysis |-> llm]
    /\ an_pc' = "responded"
    /\ status_code' = 200
    /\ UNCHANGED <<save_results, report, log, results_file>>
    /\ UNCHANGED <<operation, data_file, network_data, request_error, client_ret>>
    /\ UNCHANGED besideAnalyze

\* check_connection / list_models: requests.get raises
GetRaises ==
    /\ operation \in {"check_connection", "list_models"}
    /\ an_pc = "start"
    /\ requests_sent' = SendOnce(requests_sent)
    /\ \E err \in RequestErrors :
          /\ request_error' = err
          /\ log' = Append(log, ErrorReport(operation, err, 0))
    /\ client_ret' = IF operation = "check_connection" THEN "False" ELSE "None"
    /\ an_pc' = "done"
    /\ UNCHANGED <<save_results, status_code, result, report, results_file>>
    /\ UNCHANGED <<operation, data_file, network_data>>
    /\ UNCHANGED besideAnalyze

\* check_connection / list_models: a status other than 200
GetRefused ==
    /\ operation \in {"check_connection", "list_models"}
    /\ an_pc = "start"
    /\ requests_sent' = SendOnce(requests_sent)
    /\ \E status \in FailureStatuses :
          /\ status_code' = status
          /\ log' = Append(log, ErrorReport(operation, "none", status))
    /\ client_ret' = IF operation = "check_connection" THEN "False" ELSE "None"
    /\ an_pc' = "done"
    /\ UNCHANGED <<save_results, result, report, results_file>>
    /\ UNCHANGED <<operation, data_file, network_data, request_error>>
    /\ UNCHANGED besideAnalyze

\* check_connection / list_models: status 200
GetAccepted ==
    /\ operation \in {"check_connection", "list_models"}
    /\ an_pc = "start"
    /\ requests_sent' = SendOnce(requests_sent)
    /\ status_code' = 200
    /\ client_ret' = IF operation = "check_connection" THEN "True" ELSE "None"
    /\ an_pc' = "done"
    /\ UNCHANGED <<save_results, result, report, log, results_file>>
    /\ UNCHANGED <<operation, data_file, network_data, request_error>>
    /\ UNCHANGED besideAnalyze

ReportOf(r) ==
    [distribution |-> ThreatDistribution(r.predictions),
     top          |-> TopThreats(r.predictions),
     llm          |-> LlmLines(r.predictions, r.llm_analysis)]

\* self._display_results(result) returns
DisplayResults ==
    /\ an_pc = "responded"
    /\ ~LlmRaises(result.predictions, result.llm_analysis)
    /\ report' = ReportOf(result)
    /\ an_pc' = "displayed"
    /\ UNCHANGED <<save_results, status_code, result, log, results_file>>
    /\ UNCHANGED callVars
    /\ UNCHANGED besideAnalyze

\* self._display_results(result) raises IndexError at predictions[record_id],
\* after it printed the sections before; analyze's except Exception logs
\* "Error: ..." and analyze returns
DisplayResultsRaises ==
    /\ an_pc = "responded"
    /\ LlmRaises(result.predictions, result.llm_analysis)
    /\ report' = ReportOf(result)
    /\ log' = Append(log, "Error")
    /\ an_pc' = "done"
    /\ UNCHANGED <<save_results, status_code, result, results_file>>
    /\ UNCHANGED callVars
    /\ UNCHANGED besideAnalyze

\* if save_results: json.dump(result, f); "Results saved to ..."
SaveResults ==
    /\ an_pc = "displayed"
    /\ save_results
    /\ results_file' = result
    /\ log' = Append(log, "Results saved")
    /\ an_pc' = "done"
    /\ UNCHANGED <<save_results, status_code, result, report>>
    /\ UNCHANGED callVars
    /\ UNCHANGED besideAnalyze

\* open(output_file, 'w') raises OSError: except Exception logs it
SaveResultsRaises ==
    /\ an_pc = "displayed"
    /\ save_results
    /\ log' = Append(log, "Error")
    /\ an_pc' = "done"
    /\ UNCHANGED <<save_results, status_code, result, report, results_file>>
    /\ UNCHANGED callVars
    /\ UNCHANGED besideAnalyze

SkipSave ==
    /\ an_pc = "displayed"
    /\ ~save_results
    /\ an_pc' = "done"
    /\ UNCHANGED <<save_results, status_code, result, report, log, results_file>>
    /\ UNCHANGED callVars
    /\ UNCHANGED besideAnalyze

NextAnalyze ==
    \/ ConvertPcapUnavailable
    \/ ConvertPcapReturns
    \/ ConvertPcapFails
    \/ LoadPcapUnavailable
    \/ LoadPcapConversionFails
    \/ LoadPcapConverted
    \/ LoadTable
    \/ LoadFails
    \/ ReturnWithoutData
    \/ GetRaises
    \/ GetRefused
    \/ GetAccepted
    \/ PostRaises
    \/ PostRefused
    \/ PostAccepted
    \/ DisplayResults
    \/ DisplayResultsRaises
    \/ SaveResults
    \/ SaveResultsRaises
    \/ SkipSave

SpecAnalyze == InitAnalyze /\ [][NextAnalyze]_vars

\* ------------------------------------ ThreatDetectorClient.interactive_mode
\* The texts typed at the prompts. An operation run from the menu returns to
\* it: each of them catches what it raises.
MenuChoices == {"1", "2", "3", "4", "5", "6", "7", "8", "9"}
FilePaths == {"", "data.csv"}
YesNoTexts == {"y", "n", ""}
ThresholdTexts ==
    {<<>>, <<"0", ".", "5">>, <<"2">>, <<"h", "i", "g", "h">>, <<"0", ",", "5">>}
DefaultThreshold == <<"0", ".", "7">>

\* float(text) raises ValueError
FloatRaises(text) == IsNaN(ParseNumber(text))

CurrentChoice == menu_choices[Len(menu_choices)]

InitMenu ==
    /\ menu_pc = "menu"
    /\ menu_choices = <<>>
    /\ menu_threshold = <<>>
    /\ menu_exc = "none"
    /\ CSV_REORGANIZER_AVAILABLE \in BOOLEAN
    /\ SCAPY_AVAILABLE \in BOOLEAN
    /\ conv_pc = "idle"
    /\ conv_err = "none"
    /\ packets = <<>>
    /\ data = <<>>
    /\ df = EmptyFrame
    /\ df_ml = EmptyFrame
    /\ csv_out = EmptyFrame
    /\ IdlePort
    /\ IdleFlow
    /\ an_pc = "idle"
    /\ save_results = FALSE
    /\ status_code = 0
    /\ result = NoResult
    /\ report = NoReport
    /\ log = <<>>
    /\ results_file = NoResult
    /\ operation = "none"
    /\ data_file = NoFile
    /\ network_data = <<>>
    /\ requests_sent = 0
    /\ request_error = "none"
    /\ client_ret = "none"

\* choice = input("Select option: ").strip() and the branch taken
AfterChoice(choice) ==
    CASE choice \in {"3", "4"} -> "file"
      [] choice = "5" ->
            IF PCAP_SUPPORT_AVAILABLE(SCAPY_AVAILABLE) THEN "file" ELSE "menu"
      [] choice = "6" -> IF CSV_REORGANIZER_AVAILABLE THEN "file" ELSE "menu"
      [] choice = "8" -> "exited"
      [] OTHER -> "menu"

SelectOption ==
    /\ menu_pc = "menu"
    /\ Len(menu_choices) < MaxMenuRounds
    /\ \E choice \in MenuChoices :
          /\ menu_choices' = Append(menu_choices, choice)
          /\ menu_pc' = AfterChoice(choice)
    /\ UNCHANGED <<CSV_REORGANIZER_AVAILABLE, menu_threshold, menu_exc>>
    /\ UNCHANGED besideMenu

\* the file path prompt of options 3, 4, 5 and 6: an empty path is refused;
\* option 4 runs analyze and comes back
TypeFilePath ==
    /\ menu_pc = "file"
    /\ \E path \in FilePaths :
          menu_pc' = IF path = "" THEN "menu"
                     ELSE IF CurrentChoice = "3" THEN "llm"
                     ELSE IF CurrentChoice = "4" THEN "menu"
                     ELSE "output"
    /\ UNCHANGED <<CSV_REORGANIZER_AVAILABLE, menu_choices, menu_threshold, menu_exc>>
    /\ UNCHANGED besideMenu

\* options 5 and 6: the output file prompt, then convert_pcap / reorganize_csv
TypeOutputFile ==
    /\ menu_pc = "output"
    /\ menu_pc' = "menu"
    /\ UNCHANGED <<CSV_REORGANIZER_AVAILABLE, menu_choices, menu_threshold, menu_exc>>
    /\ UNCHANGED besideMenu

\* use_llm = input(...).strip().lower() != 'n'
TypeUseLlm ==
    /\ menu_pc = "llm"
    /\ \E text \in YesNoTexts :
          menu_pc' = IF text = "n" THEN "save" ELSE "model"
    /\ UNCHANGED <<CSV_REORGANIZER_AVAILABLE, menu_choices, menu_threshold, menu_exc>>
    /\ UNCHANGED besideMenu

\* llm_model = input(...).strip() or "llama3.2:1b"
TypeModel ==
    /\ menu_pc = "model"
    /\ menu_pc' = "threshold"
    /\ UNCHANGED <<CSV_REORGANIZER_AVAILABLE, menu_choices, menu_threshold, menu_exc>>
    /\ UNCHANGED besideMenu

\* threshold = float(input(...).strip() or "0.7"): nothing in
\* interactive_mode catches the ValueError
TypeThreshold ==
    /\ menu_pc = "threshold"
    /\ \E text \in ThresholdTexts :
          /\ menu_threshold' = text
          /\ IF FloatRaises(IF text = <<>> THEN DefaultThreshold ELSE text)
             THEN menu_pc' = "crashed" /\ menu_exc' = "ValueError"
             ELSE menu_pc' = "save" /\ menu_exc' = menu_exc
    /\ UNCHANGED <<CSV_REORGANIZER_AVAILABLE, menu_choices>>
    /\ UNCHANGED besideMenu

\* save_results = input(...).strip().lower() != 'n'; self.analyze(...)
TypeSave ==
    /\ menu_pc = "save"
    /\ menu_pc' = "menu"
    /\ UNCHANGED <<CSV_REORGANIZER_AVAILABLE, menu_choices, menu_threshold, menu_exc>>
    /\ UNCHANGED besideMenu

NextMenu ==
    \/ SelectOption
    \/ TypeFilePath
    \/ TypeOutputFile
    \/ TypeUseLlm
    \/ TypeModel
    \/ TypeThreshold
    \/ TypeSave

SpecMenu == InitMenu /\ [][NextMenu]_vars

\* The converter called directly and the client's operations, over both
\* values of the capability flag.
InitCapability == InitPcap \/ InitAnalyze
NextCapability == NextPcap \/ NextAnalyze
SpecCapability == InitCapability /\ [][NextCapability]_vars

\* ------------------------------------------------------------------ claims
Aggregated == conv_pc \in {"aggregated", "categorized", "done"}

\* the rows of df that belong to the connection of row i
SameConnection(i) ==
    {j \in 1..NRows(df) :
        Cell(df, j, "connection_id") = Cell(df, i, "connection_id")}

\* C1: for every non-empty sequence of extracted records, the aggregated
\* table has exactly as many rows as there are records, and its row i is
\* record i: the join by connection key drops, duplicates and moves no row.
C1_AggregatorKeepsRowsInOrder ==
    (Aggregated /\ data # <<>>) =>
        /\ NRows(df) = Len(data)
        /\ \A i \in 1..Len(data) : \A k \in 1..Len(RecordKeys) :
              Cell(df, i, RecordKeys[k]) = data[i][RecordKeys[k]]

\* three records, the first and the last of one connection, the second of
\* another, have been aggregated
C1_Witness ==
    /\ conv_pc = "aggregated"
    /\ Len(data) = 3
    /\ NRows(df) = 3
    /\ Cell(df, 1, "connection_id") = Cell(df, 3, "connection_id")
    /\ Cell(df, 1, "connection_id") # Cell(df, 2, "connection_id")

NoIpPacket == \A k \in 1..Len(packets) : ~packets[k].ip

\* C2: on a capture that yields no record (no packet, or only packets without
\* an IP layer) convert_pcap_to_csv raises no error and ends with an empty
\* output table.
C2_EmptyCaptureCompletes ==
    (conv_pc \notin {"start", "loaded"} /\ conv_err \notin {"ImportError", "ReadError"}
        /\ NoIpPacket) =>
        /\ conv_pc # "failed"
        /\ conv_pc = "done" => NRows(csv_out) = 0

\* C3: every connection's rates are packet_count / (duration + 0.001) and
\* total_bytes / (duration + 0.001) with duration >= 0 and a denominator > 0,
\* so both are finite; a connection of one packet has duration 0 and
\* packets_per_second = 1000.
C3_EpsilonGuardedRates ==
    (Aggregated /\ data # <<>>) =>
        \A i \in 1..NRows(df) :
            LET duration == Cell(df, i, "duration")
                count    == Cell(df, i, "packet_count")
                pps      == Cell(df, i, "packets_per_second")
                bps      == Cell(df, i, "bytes_per_second")
                den      == NumAdd(duration, Rat(1, 1000))
                bytes    == SumCells(df, SameConnection(i), "packet_size")
            IN  /\ IsNum(duration) /\ NumLe(Num(0), duration)
                /\ NumLt(Num(0), den)
                /\ IsNum(pps) /\ NumEq(NumMul(pps, den), count)
                /\ IsNum(bps) /\ NumEq(NumMul(bps, den), bytes)
                /\ Cardinality(SameConnection(i)) = 1 =>
                      /\ count = Num(1)
                      /\ duration = Num(0)
                      /\ pps = Num(1000)

\* a connection of one packet and a connection lasting two seconds have
\* both been aggregated
C3_Witness ==
    /\ conv_pc = "aggregated"
    /\ NRows(df) = 3
    /\ \E i \in 1..3 : /\ Cardinality(SameConnection(i)) = 1
                       /\ Cell(df, i, "packets_per_second") = Num(1000)
    /\ \E i \in 1..3 : /\ Cell(df, i, "duration") = Num(2)
                       /\ Cell(df, i, "packet_count") = Num(2)
                       /\ Cell(df, i, "packets_per_second") = Rat(2000, 2001)

\* what PortCategory is to return for an integer port
PortCategory(p) ==
    IF p = 0 THEN "unknown"
    ELSE IF 1 <= p /\ p <= 1023 THEN "well_known"
    ELSE IF 1024 <= p /\ p <= 49151 THEN "registered"
    ELSE "dynamic"

\* C4: for every integer port 0..65535 both categorize_port functions return
\* 'unknown' for 0, 'well_known' for 1..1023, 'registered' for 1024..49151
\* and 'dynamic' from 49152 on.
C4_PortCategoryBoundaries ==
    (port_pc = "categorized" /\ IsNum(port)) =>
        /\ category_pcap = PortCategory(port[2])
        /\ category_flow = PortCategory(port[2])

\* the last registered port has been categorized
C4_Witness ==
    /\ port_pc = "categorized"
    /\ port = Num(49151)
    /\ category_pcap = "registered"
    /\ category_flow = "registered"

\* C5: the capture path's and the flow-log path's categorize_port return the
\* same category for every input, a missing port included.
C5_SamePortCategoryOnBothPaths ==
    port_pc = "categorized" => category_pcap = category_flow


\* ------------------------------------------------------------- renderer
Displayed ==
    operation = "analyze" /\ status_code = 200 /\ an_pc \in {"displayed", "done"}

\* p is listed before q: higher confidence, or the same and the smaller id
RanksBefore(p, q) ==
    \/ p.confidence > q.confidence
    \/ p.confidence = q.confidence /\ p.record_id < q.record_id

\* C8: the top list of the report holds only threats of the result, at most
\* ten of them and as many as there are up to ten, by confidence descending
\* and by record_id ascending where confidences are equal, and every threat
\* left out ranks after every listed one.
C8_TopThreatRanking ==
    Displayed =>
        LET preds == result.predictions
            top   == report.top
            threatIds == {i \in 1..Len(preds) : preds[i].is_threat}
        IN  /\ Len(top) <= 10
            /\ Len(top) = IF Cardinality(threatIds) < 10
                          THEN Cardinality(threatIds) ELSE 10
            /\ \A k \in 1..Len(top) :
                  /\ top[k].is_threat
                  /\ top[k].record_id + 1 \in threatIds
                  /\ top[k] = preds[top[k].record_id + 1]
            /\ \A j, k \in 1..Len(top) : j < k => RanksBefore(top[j], top[k])
            /\ \A i \in threatIds :
                  (\A k \in 1..Len(top) : top[k].record_id # preds[i].record_id)
                     => \A k \in 1..Len(top) : RanksBefore(top[k], preds[i])

\* more than ten threats, equal confidences among the listed ones, a threat of
\* higher confidence after one of lower, and a record that is no threat
C8_Witness ==
    /\ Displayed
    /\ Cardinality({i \in 1..Len(result.predictions) :
                       result.predictions[i].is_threat}) > 10
    /\ Len(report.top) = 10
    /\ \E i \in 1..Len(result.predictions) : ~result.predictions[i].is_threat
    /\ \E j, k \in 1..10 :
          j # k /\ report.top[j].confidence = report.top[k].confidence
    /\ \E j, k \in 1..10 :
          j < k /\ report.top[j].record_id > report.top[k].record_id

FirstSeen(preds, label) ==
    CHOOSE i \in 1..Len(preds) :
        /\ preds[i].prediction = label
        /\ \A j \in 1..(i - 1) : preds[j].prediction # label

Occurrences(preds, label) ==
    Cardinality({i \in 1..Len(preds) : preds[i].prediction = label})

RECURSIVE SumCounts(_)
SumCounts(lines) ==
    IF lines = <<>> THEN 0 ELSE Head(lines)[1] + SumCounts(Tail(lines))

\* C9: the threat distribution lists every label of the predictions once with
\* the number of its occurrences, the counts add up to the number of
\* predictions, the lines go by count descending, and labels of equal count
\* go in the order of their first occurrence in the predictions.
C9_Histogram ==
    Displayed =>
        LET preds == result.predictions
            lines == report.distribution
        IN  /\ {lines[k][2] : k \in 1..Len(lines)}
                  = {preds[i].prediction : i \in 1..Len(preds)}
            /\ \A j, k \in 1..Len(lines) : j # k => lines[j][2] # lines[k][2]
            /\ \A k \in 1..Len(lines) :
                  lines[k][1] = Occurrences(preds, lines[k][2])
            /\ SumCounts(lines) = Len(preds)
            /\ \A j, k \in 1..Len(lines) : j < k =>
                  \/ lines[j][1] > lines[k][1]
                  \/ /\ lines[j][1] = lines[k][1]
                     /\ FirstSeen(preds, lines[j][2]) < FirstSeen(preds, lines[k][2])

\* three labels, two of them of equal count, and the most frequent label
\* first seen after another
C9_Witness ==
    /\ Displayed
    /\ Len(report.distribution) = 3
    /\ report.distribution[2][1] = report.distribution[3][1]
    /\ report.distribution[1][1] > report.distribution[2][1]
    /\ FirstSeen(result.predictions, report.distribution[1][2]) > 1

OutOfRange(r, record_id) ==
    record_id < 0 \/ record_id > Len(r.predictions) - 1

\* C10: when an llm_analysis entry has a record_id outside
\* 0..len(predictions)-1, rendering fails without a line printed for that
\* entry, and analyze does not go on to a normal end with the failure logged
\* as an ordinary error.
C10_AlignmentErrorsFatal ==
    (Displayed /\ \E k \in 1..Len(result.llm_analysis) :
                     OutOfRange(result, result.llm_analysis[k].record_id)) =>
        /\ an_pc = "done"
        /\ \A k \in 1..Len(report.llm) :
              ~OutOfRange(result, report.llm[k].record_id)
        /\ "Error" \notin {log[k] : k \in 1..Len(log)}

\* ------------------------------------------------------ flow normalizer
\* C6: the normalization steps, run on the df a run returned, end without an
\* exception and leave it with the same column names and the same cells.
C6_NormalizerIdempotent ==
    flow_pass = 2 =>
        /\ flow_pc # "raised"
        /\ flow_pc \in {"renamed", "filled", "derived", "selected", "returned"}
              => flow_df = flow_first

\* a second run ended, on a df whose first run renamed a header, filled an
\* empty field, read a number from text and derived features
C6_Witness ==
    /\ flow_pass = 2
    /\ flow_pc = "derived"
    /\ \E k \in 1..Len(input_file.names) :
          /\ Strip(input_file.names[k]) \in DOMAIN column_mapping
          /\ column_mapping[Strip(input_file.names[k])] # Strip(input_file.names[k])
    /\ \E k \in 1..Len(input_file.names) :
          input_file.names[k] # <<Strip(input_file.names[k])>>
    /\ \E i \in 1..Len(input_file.rows) : \E k \in 1..Len(input_file.names) :
          input_file.rows[i][k] = <<>>
    /\ \E i \in 1..Len(input_file.rows) : \E k \in 1..Len(input_file.names) :
          input_file.rows[i][k] = <<"-">>
    /\ HasCol(flow_df, "bytes_per_packet")
    /\ HasCol(flow_df, "duration_category")
    /\ HasCol(flow_df, "has_syn")

AllowIndex(allow, name) == CHOOSE a \in 1..Len(allow) : allow[a] = name
Listed(allow) == {allow[a] : a \in 1..Len(allow)}

\* the k-th column of t, as its label and the cells below it
Column(t, k) == <<t.names[k], [i \in 1..Len(t.rows) |-> t.rows[i][k]] \o <<>>>>
ColumnsOf(t, name) ==
    LET idx == Ascending(ColIdxs(t, name))
    IN  [k \in 1..Len(idx) |-> Column(t, idx[k])] \o <<>>

\* C7: df_ml has the rows of df, its columns are the columns of df whose label
\* is on the allow-list, cells unchanged, ordered as the allow-list orders
\* their labels; a label of the allow-list that df lacks is left out, a df
\* with no listed label gives no column and as many rows, and selecting from
\* df_ml again gives df_ml.
C7_SelectorIsProjection ==
    (flow_pc \in {"selected", "returned"} /\ flow_err \in {"none", "SaveError"}) =>
        /\ NRows(flow_ml) = NRows(flow_df)
        /\ ColSet(flow_ml) = ColSet(flow_df) \cap Listed(FlowMlColumns)
        /\ \A j, k \in 1..NCols(flow_ml) : j < k =>
              AllowIndex(FlowMlColumns, flow_ml.names[j])
                 <= AllowIndex(FlowMlColumns, flow_ml.names[k])
        /\ \A name \in ColSet(flow_ml) :
              ColumnsOf(flow_ml, name) = ColumnsOf(flow_df, name)
        /\ ColSet(flow_df) \cap Listed(FlowMlColumns) = {}
              => NCols(flow_ml) = 0
        /\ SelectFeatures(flow_ml, FlowMlColumns) = flow_ml

\* a df with rows that lacks labels of the allow-list, holds labels that are
\* not on it, and holds two listed labels in the other order
C7_Witness ==
    /\ flow_pc = "selected"
    /\ NRows(flow_df) = 2
    /\ NCols(flow_ml) > 2
    /\ \E a \in 1..Len(FlowMlColumns) : ~HasCol(flow_df, FlowMlColumns[a])
    /\ \E k \in 1..NCols(flow_df) : flow_df.names[k] \notin Listed(FlowMlColumns)
    /\ \E j, k \in 1..NCols(flow_df) :
          /\ j < k
          /\ flow_df.names[j] \in Listed(FlowMlColumns)
          /\ flow_df.names[k] \in Listed(FlowMlColumns)
          /\ AllowIndex(FlowMlColumns, flow_df.names[j])
                > AllowIndex(FlowMlColumns, flow_df.names[k])

\* a df of two rows with no label of the allow-list
C7_DisjointReached ==
    /\ flow_pc = "selected"
    /\ NRows(flow_df) = 2
    /\ ColSet(flow_df) \cap Listed(FlowMlColumns) = {}

\* the cells pd.read_csv gave, before any step
SourceCell(i, k) == read_csv(input_file).rows[i][k]
Unparseable(v) == IsNaN(v) \/ (v[1] = "str" /\ IsNaN(ParseNumber(v[4])))

\* C11: coercion raises nothing, and once the missing values are handled every
\* cell of a numeric column is a number, 0 where the source cell was missing
\* or did not read as a number.
C11_NumericCoercion ==
    flow_pass = 1 =>
        /\ flow_err # "TypeError"
        /\ flow_pc = "filled" =>
              \A k \in 1..NCols(flow_df) :
                 (\E c \in 1..Len(numeric_cols) : numeric_cols[c] = flow_df.names[k]) =>
                    \A i \in 1..NRows(flow_df) :
                       /\ IsNum(flow_df.rows[i][k])
                       /\ Unparseable(SourceCell(i, k)) => flow_df.rows[i][k] = Num(0)

IsText(v) == v[1] = "str" /\ v[4] # <<>>

\* C12: the normalized table holds a label and a detailed_label in every row,
\* none of them empty, also when the source has no such column.
C12_LabelDefaults ==
    (flow_pass = 1 /\ flow_pc = "derived") =>
        /\ HasCol(flow_df, "label")
        /\ HasCol(flow_df, "detailed_label")
        /\ \A i \in 1..NRows(flow_df) :
              /\ IsText(Cell(flow_df, i, "label"))
              /\ IsText(Cell(flow_df, i, "detailed_label"))

NonNegative(t, i, c) == HasCol(t, c) => NumLe(Num(0), Cell(t, i, c))

\* C13: in every normalized row the duration, the byte and packet counts, the
\* totals and bytes_per_packet are at least 0, whatever the source held.
C13_NonNegativeFields ==
    (flow_pass = 1 /\ flow_pc = "derived") =>
        \A i \in 1..NRows(flow_df) :
           \A c \in {"duration", "bytes_sent", "bytes_received", "packets_sent",
                     "packets_received", "total_bytes", "total_packets",
                     "bytes_per_packet"} : NonNegative(flow_df, i, c)

\* C14: after the rename step the table has the columns it had, the k-th
\* under the canonical name of its trimmed header where the mapping has one
\* and under its trimmed header where it has none, with the cells as read.
C14_ColumnRenaming ==
    (flow_pass = 1 /\ flow_pc = "renamed") =>
        /\ NCols(flow_df) = Len(input_file.names)
        /\ NRows(flow_df) = Len(input_file.rows)
        /\ \A k \in 1..NCols(flow_df) :
              LET trimmed == Strip(input_file.names[k])
              IN  /\ trimmed \in DOMAIN column_mapping
                        => flow_df.names[k] = column_mapping[trimmed]
                  /\ trimmed \notin DOMAIN column_mapping
                        => flow_df.names[k] = trimmed
                  /\ \A i \in 1..NRows(flow_df) :
                        flow_df.rows[i][k] = SourceCell(i, k)

\* a table of two rows after the rename step: a padded header, a header the
\* mapping renames, one it maps to itself and one it does not hold
C14_Witness ==
    /\ flow_pass = 1
    /\ flow_pc = "renamed"
    /\ NRows(flow_df) = 2
    /\ \E k \in 1..NCols(flow_df) : input_file.names[k] # <<Strip(input_file.names[k])>>
    /\ \E k \in 1..NCols(flow_df) :
          /\ Strip(input_file.names[k]) \in DOMAIN column_mapping
          /\ flow_df.names[k] # Strip(input_file.names[k])
    /\ HasCol(flow_df, "duration")
    /\ \E k \in 1..NCols(flow_df) :
          /\ Strip(input_file.names[k]) \notin DOMAIN column_mapping
          /\ input_file.names[k] # <<Strip(input_file.names[k])>>

\* the headers of the input are source names the mapping holds, each once
Recognized ==
    /\ \A k \in 1..Len(input_file.names) :
          Strip(input_file.names[k]) \in DOMAIN column_mapping
    /\ \A j, k \in 1..Len(input_file.names) :
          j # k => Strip(input_file.names[j]) # Strip(input_file.names[k])

DerivedColumns(t) ==
    (IF HasCol(t, "bytes_sent") /\ HasCol(t, "bytes_received")
        THEN {"total_bytes"} ELSE {})
    \cup (IF HasCol(t, "packets_sent") /\ HasCol(t, "packets_received")
        THEN {"total_packets"} ELSE {})
    \cup (IF /\ HasCol(t, "bytes_sent") /\ HasCol(t, "bytes_received")
             /\ HasCol(t, "packets_sent") /\ HasCol(t, "packets_received")
        THEN {"bytes_per_packet"} ELSE {})
    \cup (IF HasCol(t, "duration") THEN {"duration_category"} ELSE {})
    \cup (IF HasCol(t, "dst_port") THEN {"port_category"} ELSE {})
    \cup (IF HasCol(t, "history")
        THEN {"has_syn", "has_ack", "has_fin", "has_rst"} ELSE {})

\* C15: on an input whose headers are recognized source names, whichever of
\* them are there, no step raises, no column is made for an absent source
\* column, and each derived feature is there exactly when the columns it
\* needs are.
C15_MissingColumnsSkipped ==
    (flow_pass = 1 /\ Recognized) =>
        /\ flow_pc # "raised"
        /\ flow_pc \in {"renamed", "filled"} =>
              ColSet(flow_df) = {column_mapping[Strip(input_file.names[k])] :
                                    k \in 1..Len(input_file.names)}
        /\ (flow_pc \in {"derived", "selected", "returned"} /\ flow_err # "ReadError") =>
              /\ NCols(flow_df) = Len(input_file.names)
                                  + Cardinality(DerivedColumns(flow_df))
              /\ ColSet(flow_df) =
                    {column_mapping[Strip(input_file.names[k])] :
                        k \in 1..Len(input_file.names)} \cup DerivedColumns(flow_df)

\* a normalized table of a recognized input without history and without
\* orig_bytes, with a duration and both packet counts
C15_Witness ==
    /\ flow_pass = 1
    /\ Recognized
    /\ flow_pc = "derived"
    /\ NRows(flow_df) > 0
    /\ DerivedColumns(flow_df) = {"total_packets", "duration_category"}
\* ------------------------------------------------------------------- C16
\* The outcomes of a request that the reporting has to tell apart: the two
\* exceptions, the three named statuses, and the generic failure (500).
FailureOutcomes ==
    {<<err, 0>> : err \in RequestErrors} \cup {<<"none", st>> : st \in FailureStatuses}
Outcome == <<request_error, IF request_error = "none" THEN status_code ELSE 0>>
RequestFailed ==
    /\ operation \in {"check_connection", "list_models", "analyze"}
    /\ an_pc = "done"
    /\ requests_sent > 0
    /\ Outcome \in FailureOutcomes
LastReport == log[Len(log)]

\* C16: in check_connection, list_models and analyze, a connection failure,
\* a timeout, status 401, status 403 and status 503 each produce a report
\* that no other failure outcome of the same operation produces (the generic
\* failure included), and each failure is reported.
C16_DistinctFailureReports ==
    RequestFailed =>
        /\ log # <<>>
        /\ LastReport = ErrorReport(operation, Outcome[1], Outcome[2])
        /\ \A other \in FailureOutcomes :
              ErrorReport(operation, other[1], other[2]) = LastReport => other = Outcome

\* ------------------------------------------------------------------- C17
ServiceOperation == operation \in {"check_connection", "list_models", "analyze"}
RequestOutcomeFailed == request_error # "none" \/ status_code \in FailureStatuses

\* C17: one invocation of check_connection, list_models or analyze issues at
\* most one HTTP request, whatever its outcome; after a failed request the
\* operation has reported it and returned, having sent that one request.
C17_NoAutomaticRetry ==
    ServiceOperation =>
        /\ requests_sent <= 1
        /\ RequestOutcomeFailed =>
              /\ requests_sent = 1
              /\ an_pc = "done"
              /\ log # <<>>
              /\ LastReport = ErrorReport(operation, Outcome[1], Outcome[2])

\* a request failed by timing out, and the operation has returned
C17_Witness ==
    /\ operation = "analyze"
    /\ request_error = "Timeout"
    /\ requests_sent = 1
    /\ an_pc = "done"

\* ------------------------------------------------------------------- C18
\* the input cannot be loaded: a missing or malformed file, an unsupported
\* extension, or a capture whose conversion fails
InputError(file) ==
    IF is_pcap_file(file) THEN ConversionRaises(TRUE, file) ELSE ReadRaises(file)
LoadReports == {"Failed to load data", "PCAP conversion failed", "PCAP support not available"}

\* C18: when the input file is unreadable, has an unsupported extension, is
\* a malformed table, or its capture conversion fails, load_data reports the
\* reason and returns an empty record list without raising, and analyze ends
\* without sending a request; a request is sent only after load_data
\* returned at least one record.
C18_InputErrorsStopAtLoading ==
    operation = "analyze" =>
        /\ (InputError(data_file) /\ an_pc # "start") =>
              /\ an_pc \in {"loaded", "done"}
              /\ network_data = <<>>
              /\ Len(log) = 1 /\ log[1] \in LoadReports
              /\ requests_sent = 0
              /\ status_code = 0 /\ request_error = "none"
        /\ requests_sent > 0 => network_data # <<>>

\* analyze returned on a file with an unsupported extension
C18_Witness ==
    /\ operation = "analyze"
    /\ data_file.ext = "txt"
    /\ an_pc = "done"
    /\ log = <<"Failed to load data">>
    /\ requests_sent = 0

\* ------------------------------------------------------------------- C19
\* the reports analyze makes of a failed request, over every failure outcome
RemoteReports ==
    {ErrorReport("analyze", o[1], o[2]) : o \in FailureOutcomes}
\* the reports load_data and convert_pcap make
LocalReports ==
    {LoadFailureReport, "PCAP conversion failed", "PCAP support not available"}
\* load_data reported a failure: a report was made before any request
LocalFailure == an_pc \in {"loaded", "done"} /\ requests_sent = 0 /\ log # <<>>

\* C19: in analyze, a failure to read or parse the local input is reported
\* with a message class that no remote failure (connection failure, error
\* status, timeout) produces, and no remote failure is reported as a local
\* load failure.
C19_LocalAndRemoteFailuresApart ==
    operation = "analyze" =>
        /\ LocalFailure => (LastReport \notin RemoteReports /\ ~RequestOutcomeFailed)
        /\ RequestOutcomeFailed =>
              /\ LastReport \in RemoteReports
              /\ LastReport \notin LocalReports
              /\ \A k \in 1..Len(log) : log[k] \notin LocalReports

\* a malformed table was reported as a load failure, nothing was sent
C19_Witness ==
    /\ operation = "analyze"
    /\ data_file.ext = "csv" /\ data_file.content = "malformed"
    /\ LocalFailure
    /\ LastReport = "Failed to load data"

\* ------------------------------------------------------------------- C20
\* C20: without the capture-decoding capability, convert_pcap_to_csv fails
\* with ImportError before reading any file, the client's convert_pcap and
\* load_data report that PCAP support is not available and return None / an
\* empty list, and analyze on a capture file sends no request.
C20_MissingCapability ==
    ~SCAPY_AVAILABLE =>
        /\ conv_pc \notin {"idle", "start"} =>
              /\ conv_pc = "failed" /\ conv_err = "ImportError"
              /\ packets = <<>> /\ data = <<>>
              /\ csv_out = EmptyFrame
        /\ (operation = "convert_pcap" /\ an_pc # "start") =>
              /\ an_pc = "done"
              /\ client_ret = "None"
              /\ log = <<"PCAP support not available">>
              /\ requests_sent = 0
        /\ (operation = "analyze" /\ is_pcap_file(data_file) /\ an_pc # "start") =>
              /\ an_pc \in {"loaded", "done"}
              /\ network_data = <<>>
              /\ log = <<"PCAP support not available">>
              /\ requests_sent = 0

\* analyze returned on a readable capture holding IP packets, without the
\* capability
C20_Witness ==
    /\ ~SCAPY_AVAILABLE
    /\ operation = "analyze"
    /\ data_file.ext = "pcap" /\ data_file.content = "capture" /\ data_file.rows > 0
    /\ an_pc = "done"
    /\ requests_sent = 0

\* ------------------------------------------------------------------- C21
\* the table after the derived features were added, first pass
Normalized ==
    /\ flow_pass = 1
    /\ flow_pc \in {"derived", "selected", "returned"}
    /\ flow_err = "none"
Positive(v) == IsNum(v) /\ v[2] > 0

\* C21: for every normalized row having the prerequisite columns,
\* total_bytes = bytes_sent + bytes_received, total_packets = packets_sent +
\* packets_received, and bytes_per_packet = total_bytes / total_packets when
\* total_packets > 0 and 0 otherwise.
C21_DerivedTotals ==
    Normalized =>
        \A i \in 1..NRows(flow_df) :
            /\ (HasCol(flow_df, "bytes_sent") /\ HasCol(flow_df, "bytes_received")) =>
                  /\ HasCol(flow_df, "total_bytes")
                  /\ IsNum(Cell(flow_df, i, "total_bytes"))
                  /\ Cell(flow_df, i, "total_bytes")
                        = NumAdd(Cell(flow_df, i, "bytes_sent"),
                                 Cell(flow_df, i, "bytes_received"))
            /\ (HasCol(flow_df, "packets_sent") /\ HasCol(flow_df, "packets_received")) =>
                  /\ HasCol(flow_df, "total_packets")
                  /\ IsNum(Cell(flow_df, i, "total_packets"))
                  /\ Cell(flow_df, i, "total_packets")
                        = NumAdd(Cell(flow_df, i, "packets_sent"),
                                 Cell(flow_df, i, "packets_received"))
            /\ (HasCol(flow_df, "total_bytes") /\ HasCol(flow_df, "total_packets")) =>
                  /\ HasCol(flow_df, "bytes_per_packet")
                  /\ IF Positive(Cell(flow_df, i, "total_packets"))
                     THEN IF IsNum(Cell(flow_df, i, "total_bytes"))
                          THEN NumMul(Cell(flow_df, i, "bytes_per_packet"),
                                      Cell(flow_df, i, "total_packets"))
                                  = Cell(flow_df, i, "total_bytes")
                          ELSE IsNaN(Cell(flow_df, i, "bytes_per_packet"))
                     ELSE Cell(flow_df, i, "bytes_per_packet") = Num(0)

\* a table with a row of five packets carrying 300 bytes and a row without
\* packets
C21_Witness ==
    /\ Normalized
    /\ HasCol(flow_df, "bytes_per_packet")
    /\ HasCol(flow_df, "bytes_sent") /\ HasCol(flow_df, "packets_sent")
    /\ NRows(flow_df) = 2
    /\ Cell(flow_df, 1, "total_packets") = Num(5)
    /\ Cell(flow_df, 1, "bytes_per_packet") = Num(60)
    /\ Cell(flow_df, 2, "total_packets") = Num(0)
    /\ Cell(flow_df, 2, "bytes_per_packet") = Num(0)

\* ------------------------------------------------------------------- C22
DurationCategories == {"very_short", "short", "medium", "long"}
\* the category the claim gives a duration
CategoryOfDuration(d) ==
    IF NumLe(d, Rat(1, 10)) THEN "very_short"
    ELSE IF NumLt(Rat(1, 10), d) /\ NumLe(d, Num(1)) THEN "short"
    ELSE IF NumLt(Num(1), d) /\ NumLe(d, Num(10)) THEN "medium"
    ELSE IF NumLt(Num(10), d) THEN "long"
    ELSE "none"

\* C22: duration_category is a total function of the normalized duration:
\* very_short iff duration <= 0.1, short iff 0.1 < duration <= 1, medium iff
\* 1 < duration <= 10, long iff duration > 10; every normalized row gets
\* exactly one of the four categories, never a missing one.
C22_DurationCategoryTotal ==
    (Normalized /\ HasCol(flow_df, "duration")) =>
        /\ HasCol(flow_df, "duration_category")
        /\ \A i \in 1..NRows(flow_df) :
              /\ Cell(flow_df, i, "duration_category")[1] = "str"
              /\ Cell(flow_df, i, "duration_category")[4] \in DurationCategories
              /\ Cell(flow_df, i, "duration_category")[4]
                    = CategoryOfDuration(Cell(flow_df, i, "duration"))

\* the same without the totality: every row whose duration is finite or
\* +inf has the category of its interval
C22_FiniteDurationsCategorized ==
    (Normalized /\ HasCol(flow_df, "duration")) =>
        /\ HasCol(flow_df, "duration_category")
        /\ \A i \in 1..NRows(flow_df) :
              Cell(flow_df, i, "duration") # NegInf =>
                 /\ Cell(flow_df, i, "duration_category")[1] = "str"
                 /\ Cell(flow_df, i, "duration_category")[4]
                       = CategoryOfDuration(Cell(flow_df, i, "duration"))

\* ------------------------------------------------------------------- C23
\* the history field of row i as the source file holds it
HistoryIndex == CHOOSE k \in 1..Len(input_file.names) : Strip(input_file.names[k]) = "history"
SourceHistory(i) == input_file.rows[i][HistoryIndex]
HasLetter(chars, letter) == \E k \in 1..Len(chars) : chars[k] = letter
FlagLetters ==
    {<<"has_syn", "S">>, <<"has_ack", "A">>, <<"has_fin", "F">>, <<"has_rst", "R">>}
OneHistoryColumn == Cardinality(ColIdxs(flow_df, "history")) = 1

\* C23: when the history column exists, for every row has_syn / has_ack /
\* has_fin / has_rst is set exactly when the source history string holds the
\* upper-case letter S / A / F / R anywhere in it; a row whose history is
\* missing is filled with "unknown" and has all four flags unset.
C23_HistoryFlags ==
    (Normalized /\ OneHistoryColumn) =>
        \A i \in 1..NRows(flow_df) :
            /\ \A fl \in FlagLetters :
                  /\ HasCol(flow_df, fl[1])
                  /\ Cell(flow_df, i, fl[1]) \in {Num(0), Num(1)}
                  /\ Cell(flow_df, i, fl[1]) = Num(1) <=> HasLetter(SourceHistory(i), fl[2])
            /\ SourceHistory(i) = <<>> =>
                  /\ Cell(flow_df, i, "history") = Unknown
                  /\ \A fl \in FlagLetters : Cell(flow_df, i, fl[1]) = Num(0)

\* a row whose history holds S, A and F after other letters, and a row
\* without a history
C23_Witness ==
    /\ Normalized /\ OneHistoryColumn
    /\ NRows(flow_df) = 2
    /\ SourceHistory(1) = <<"S", "h", "A", "D", "F">>
    /\ Cell(flow_df, 1, "has_ack") = Num(1)
    /\ Cell(flow_df, 1, "has_rst") = Num(0)
    /\ SourceHistory(2) = <<>>
    /\ Cell(flow_df, 2, "has_syn") = Num(0)

\* ------------------------------------------------------------------- C24
Extracted == conv_pc \in {"extracted", "aggregated", "categorized", "done"}
\* the positions of the packets that have an IP layer, ascending
IpPositions == Ascending({k \in 1..Len(packets) : packets[k].ip})
\* record r was made of packet p
RecordOf(r, p) ==
    /\ r.timestamp = Rat(p.time, 1000)
    /\ r.src_ip = Str(p.src) /\ r.dst_ip = Str(p.dst)
    /\ r.packet_size = Num(p.len)
    /\ r.ttl = Num(p.ttl)
    /\ r.payload_size = Num(p.len - p.iplen)

\* C24: for every packet sequence the extracted records correspond one to
\* one, in input order, to exactly the packets that have an IP layer; a
\* packet without an IP layer produces no record and no error.
C24_ExtractorDropsAndKeepsOrder ==
    /\ Extracted =>
          /\ Len(data) = Len(IpPositions)
          /\ \A j \in 1..Len(data) : RecordOf(data[j], packets[IpPositions[j]])
    /\ (conv_pc = "extracted") => conv_err = "none"

\* two IP packets with a frame without an IP layer between them
C24_Witness ==
    /\ conv_pc = "extracted"
    /\ Len(packets) = 3
    /\ packets[1].ip /\ ~packets[2].ip /\ packets[3].ip
    /\ packets[1] # packets[3]
    /\ Len(data) = 2

\* ------------------------------------------------------------------- C25
\* the label the claim gives a packet: TCP > UDP > ICMP > OTHER
ProtocolLabel(p) ==
    IF "TCP" \in p.layers THEN "TCP"
    ELSE IF "UDP" \in p.layers THEN "UDP"
    ELSE IF "ICMP" \in p.layers THEN "ICMP"
    ELSE "OTHER"

\* C25: the protocol field of every extracted record is one of the string
\* labels TCP, UDP, ICMP, OTHER, never the raw IP protocol number, chosen by
\* the priority TCP > UDP > ICMP > OTHER over the layers of the packet.
C25_ProtocolIsLabel ==
    Extracted =>
        \A j \in 1..Len(data) :
            /\ data[j].protocol[1] = "str"
            /\ data[j].protocol = Str(ProtocolLabel(packets[IpPositions[j]]))

\* the same for the packets that carry one of the three transports
C25_TransportProtocolIsLabel ==
    Extracted =>
        \A j \in 1..Len(data) :
            packets[IpPositions[j]].layers # {} =>
                data[j].protocol = Str(ProtocolLabel(packets[IpPositions[j]]))

\* ------------------------------------------------------------------- C26
\* the records with the (src_ip, src_port, dst_ip, dst_port) of record i
SameKey(i) ==
    {j \in 1..Len(data) :
        /\ data[j].src_ip = data[i].src_ip /\ data[j].src_port = data[i].src_port
        /\ data[j].dst_ip = data[i].dst_ip /\ data[j].dst_port = data[i].dst_port}
\* record j goes the other way between the endpoints of record i
Swapped(i, j) ==
    /\ data[j].src_ip = data[i].dst_ip /\ data[j].src_port = data[i].dst_port
    /\ data[j].dst_ip = data[i].src_ip /\ data[j].dst_port = data[i].src_port
    /\ data[i].src_ip # data[i].dst_ip
Earliest(S) == CHOOSE i \in S : \A j \in S : NumLe(data[i].timestamp, data[j].timestamp)
Latest(S) == CHOOSE i \in S : \A j \in S : NumLe(data[j].timestamp, data[i].timestamp)
StatsOf(i) ==
    <<Cell(df, i, "duration"), Cell(df, i, "packet_count"),
      Cell(df, i, "packets_per_second"), Cell(df, i, "bytes_per_second")>>

\* C26: after aggregation each record's packet_count is the number of input
\* records with its (src_ip, src_port, dst_ip, dst_port) and its duration is
\* the latest minus the earliest timestamp over those records; a record and
\* one with swapped endpoints never share a connection; records sharing a
\* key carry the same duration, packet_count and rates.
C26_StatsPerConnection ==
    (Aggregated /\ data # <<>>) =>
        \A i \in 1..Len(data) :
            /\ SameConnection(i) = SameKey(i)
            /\ Cell(df, i, "packet_count") = Num(Cardinality(SameKey(i)))
            /\ Cell(df, i, "duration")
                  = NumSub(data[Latest(SameKey(i))].timestamp,
                           data[Earliest(SameKey(i))].timestamp)
            /\ \A j \in 1..Len(data) :
                  /\ Swapped(i, j) => j \notin SameConnection(i)
                  /\ j \in SameKey(i) => StatsOf(j) = StatsOf(i)

\* a request at 0 s, its reply, and a second request at 2 s
C26_Witness ==
    /\ conv_pc = "aggregated"
    /\ Len(data) = 3
    /\ Swapped(1, 2)
    /\ SameKey(1) = {1, 3}
    /\ Cell(df, 1, "packet_count") = Num(2)
    /\ Cell(df, 3, "duration") = Num(2)
    /\ Cell(df, 2, "packet_count") = Num(1)
    /\ Cell(df, 2, "duration") = Num(0)

\* ------------------------------------------------------------------- C27
AnalyzeEnded == operation = "analyze" /\ an_pc = "done"
RenderingRaises == LlmRaises(result.predictions, result.llm_analysis)
\* open(output_file, 'w') failed: rendering went through and an error was
\* logged after it
SinkFailed == ~RenderingRaises /\ "Error" \in {log[k] : k \in 1..Len(log)}

\* C27: whenever the service answers analyze with status 200 and the caller
\* requested persistence, the results sink (when it can be written) ends up
\* holding the result as received, predictions in the same order; when
\* persistence was not requested, or the status is not 200, nothing is
\* written.
C27_ResultPersisted ==
    AnalyzeEnded =>
        /\ (status_code = 200 /\ save_results /\ ~SinkFailed) => results_file = result
        /\ (status_code # 200 \/ ~save_results) => results_file = NoResult

\* the same for the results that rendering goes through
C27_RenderedResultPersisted ==
    AnalyzeEnded =>
        /\ (status_code = 200 /\ save_results /\ ~SinkFailed /\ ~RenderingRaises)
              => results_file = result
        /\ (status_code # 200 \/ ~save_results) => results_file = NoResult

\* ------------------------------------------------------------------- C28
FailureReports == {"Reorganization failed", "Error during reorganization"}

\* C28: when the input cannot be read or parsed, rearrange_threat_data
\* returns an absent result, and each caller (reorganize_csv of the client,
\* the script's __main__ block) ends by reporting that reorganization failed,
\* with no exception leaving the caller.
C28_UnreadableLogReported ==
    flow_err = "ReadError" =>
        /\ flow_ret = "None" /\ flow_pc = "returned"
        /\ caller_pc = "done" =>
              /\ caller_exc = "none"
              /\ caller_report \in FailureReports

\* the same for the client's reorganize_csv alone
C28_ClientReportsUnreadableLog ==
    (flow_err = "ReadError" /\ caller = "client") =>
        /\ flow_ret = "None" /\ flow_pc = "returned"
        /\ caller_pc = "done" =>
              /\ caller_exc = "none"
              /\ caller_report \in FailureReports

\* ------------------------------------------------------------------- C29
\* C29: the menu loop of interactive_mode ends only through the Exit option;
\* after any other choice, and for any text typed at its follow-up prompts,
\* control returns to the menu prompt, no exception ending the session.
C29_MenuEndsOnlyByExit ==
    /\ menu_pc # "crashed" /\ menu_exc = "none"
    /\ menu_pc = "exited" => CurrentChoice = "8"

\* every other prompt than the confidence threshold: the session ends by an
\* exception only there, with a ValueError
C29_OnlyThresholdEndsSession ==
    /\ menu_pc = "crashed" =>
          /\ menu_exc = "ValueError"
          /\ CurrentChoice = "3"
          /\ FloatRaises(menu_threshold)
    /\ menu_pc = "exited" => CurrentChoice = "8"

\* ------------------------------------------------------------------- C30
PairwiseDistinct(names) ==
    \A j, k \in 1..Len(names) : names[j] = names[k] => j = k
TrimmedSourceNames ==
    [k \in 1..Len(input_file.names) |-> Strip(input_file.names[k])]

\* C30: whenever the trimmed source column names are pairwise distinct, the
\* column names after the rename step are pairwise distinct: no mapped
\* column is renamed onto a name another column of the table carries.
C30_RenamingKeepsNamesUnique ==
    (flow_pass = 1 /\ flow_pc = "renamed" /\ PairwiseDistinct(TrimmedSourceNames)) =>
        PairwiseDistinct(flow_df.names)

\* the same for sources that hold no canonical name next to a source name
\* mapped to it
C30_UniqueWithoutCanonicalNames ==
    (/\ flow_pass = 1 /\ flow_pc = "renamed"
     /\ PairwiseDistinct(TrimmedSourceNames)
     /\ \A j, k \in 1..Len(TrimmedSourceNames) :
           (j # k /\ TrimmedSourceNames[j] \in DOMAIN column_mapping) =>
               column_mapping[TrimmedSourceNames[j]] # TrimmedSourceNames[k]) =>
        PairwiseDistinct(flow_df.names)

====
